---- MODULE Spec2Model ----
(***************************************************************************)
(* Golden Cross backtest and parameter-grid optimisation engine.           *)
(*                                                                         *)
(* replay/strategies/goldencross.py : GoldenCrossStrategy,                 *)
(*                                    optimize_golden_cross                *)
(* replay/pages/goldencross.py      : run_golden_cross_backtest,           *)
(*                                    run_golden_cross_optimization        *)
(*                                                                         *)
(* A pandas Series over the price index is a sequence; Python position i   *)
(* is position i + 1 of the sequence.  A moving-average value is a record  *)
(* [nan, num, den]: NaN, or the exact quotient num / den.                  *)
(***************************************************************************)
EXTENDS Integers, Sequences, FiniteSets, TLC

VARIABLES
    fn,            \* the call that produced the current state
    args,          \* its arguments
    self,          \* attributes set on the GoldenCrossStrategy instance
    raised,        \* exception that propagated out of the call ("none" if it returned)
    logged,        \* messages recorded with logger.exception during the call
    st_error,      \* messages shown with st.error during the call
    close_prices,  \* the close series of the call
    fast_ma,       \* fast moving-average series
    slow_ma,       \* slow moving-average series
    entries,       \* entry signals
    exits,         \* exit signals
    entries_df,    \* columns of the entries matrix an optimiser built for the simulation
    exits_df,      \* columns of its exits matrix
    computed,      \* <<fast, slow>> window pairs whose moving averages were computed
    portfolio,     \* arguments of the vbt.Portfolio.from_signals call, <<>> if none
    param_labels,  \* labels of the grid columns
    results_df,    \* rows of the optimisation result table
    st_metrics,    \* metrics shown by display_backtest_metrics during the call
    results_df_sorted, \* the ranked view of the result table shown by the page
    st_success,    \* "best parameters" notices shown during the call
    download,      \* rows of the CSV files offered for download during the call
    st_dataframe,  \* tables shown with st.dataframe during the call
    detailed,      \* arguments of the detailed backtests run for the best parameters
    uploaded_files,        \* what st.file_uploader returned to upload_ohlcv_parquet
    accept_multiple_files, \* the mode of the uploader widget
    combined_df,           \* what upload_ohlcv_parquet returned
    st_warning,    \* messages shown with st.warning during the call
    df,            \* close column of the table the page got from the upload, <<>> if None
    mode,          \* the mode chosen with the radio widget of the page
    widgets,       \* the values of the number inputs and the select box at the last rerun
    st_info,       \* notices shown with st.info during the last rerun
    button,        \* the run button drawn by the last rerun ("none" if it drew none)
    session_state, \* st.session_state: the keys present and their values
    fetches,       \* number of OHLCV.fetch calls made so far
    download_button, \* whether the last run of an exchange page drew the download button
    to_parquet     \* arguments of the OHLCV.to_parquet calls of the last run

vars == <<fn, args, self, raised, logged, st_error, close_prices, fast_ma, slow_ma,
          entries, exits, entries_df, exits_df, computed, portfolio, param_labels, results_df,
          st_metrics, results_df_sorted, st_success, download, st_dataframe, detailed,
          uploaded_files, accept_multiple_files, combined_df, st_warning,
          df, mode, widgets, st_info, button,
          session_state, fetches, download_button, to_parquet>>

(* the variables of the backtest and optimisation calls *)
backtestVars == <<args, self, close_prices, fast_ma, slow_ma, entries, exits,
                  entries_df, exits_df, computed,
                  portfolio, param_labels, results_df, st_metrics, results_df_sorted,
                  st_success, download, st_dataframe, detailed>>

(* the variables of the file upload *)
uploadVars == <<uploaded_files, accept_multiple_files, combined_df, st_warning>>

(* the variables of the widgets of the Golden Cross page *)
formVars == <<df, mode, widgets, st_info, button>>

(* the variables the backtest and optimisation calls leave alone *)
(* the variables of the exchange pages *)
sessionVars == <<session_state, fetches, download_button, to_parquet>>

pageVars == <<uploadVars, formVars, sessionVars>>

(* a widget that the chosen mode does not draw *)
NoWidget == 0 - 1

NoWidgets ==
    [fast_window |-> NoWidget, slow_window |-> NoWidget,
     fast_min |-> NoWidget, fast_max |-> NoWidget, fast_step |-> NoWidget,
     slow_min |-> NoWidget, slow_max |-> NoWidget, slow_step |-> NoWidget,
     initial_cash |-> NoWidget, fees |-> [num |-> 0, den |-> 1], optimize_metric |-> ""]

(* upload_ohlcv_parquet has not been called and the page has not been drawn *)
InitPage ==
    /\ uploaded_files = <<>>
    /\ accept_multiple_files = TRUE
    /\ combined_df = <<>>
    /\ st_warning = <<>>
    /\ df = <<>>
    /\ mode = "none"
    /\ widgets = NoWidgets
    /\ st_info = <<>>
    /\ button = "none"
    /\ session_state = <<>>
    /\ fetches = 0
    /\ download_button = FALSE
    /\ to_parquet = <<>>

----------------------------------------------------------------------------
(* Bounds of the model *)

MaxWindow == 2

MaxLen == 3

MaxPrice == 2

MaxRange == 2

(* highest price of the strictly rising series *)
MaxRisingPrice == 5
(* uploaded files and distinct timestamps *)
MaxFiles == 2

MaxTime == 3
(* OHLCV.fetch calls on the exchange pages, and the latest timestamp of their inputs *)
MaxFetches == 3

MaxDt == 2

(* Smallest slow window the optimisation form offers *)
SlowMinValue == 20

(* Smallest initial cash the forms offer, and their default *)
MinInitialCash == 100

DefaultInitialCash == 10000

(* Default fee rate 0.001, in units of 1e-5 *)
DefaultFees == 100

FastWindows == 0..MaxWindow

SlowWindows == {MaxWindow, SlowMinValue}

Windows == FastWindows \cup SlowWindows

CashSet == {MinInitialCash, DefaultInitialCash}

FeesSet == {0, DefaultFees}

Prices == 1..MaxPrice

CloseSeqs == [1..MaxLen -> Prices]

(* close series handed to the grid optimisers: a low and a high price level *)
GridCloseSeqs == [1..MaxLen -> {1, MaxPrice}]

(* strictly rising close series *)
RisingSeqs ==
    {s \in [1..MaxLen -> 1..MaxRisingPrice] : \A i \in 1..(MaxLen - 1) : s[i] < s[i + 1]}

RECURSIVE ListsUpTo(_, _)
ListsUpTo(S, n) ==
    IF n = 0 THEN {<<>>}
    ELSE LET shorter == ListsUpTo(S, n - 1)
         IN  shorter \cup {Append(l, x) : l \in {m \in shorter : Len(m) = n - 1}, x \in S}

FastRanges == ListsUpTo(FastWindows, MaxRange)

SlowRanges == ListsUpTo(SlowWindows, MaxRange)

----------------------------------------------------------------------------
(* Floating-point values of a moving-average series *)

NaN == [nan |-> TRUE, num |-> 0, den |-> 1]

Num(p) == [nan |-> FALSE, num |-> p, den |-> 1]

MAValues == {NaN} \cup {Num(p) : p \in Prices}

MASeqs == [1..MaxLen -> MAValues]

(* a > b that also accepts equality *)
GTOrEqual(a, b) == ~a.nan /\ ~b.nan /\ a.num * b.den >= b.num * a.den

(* a > b that reads a missing value as 0 *)
GTNaNAsZero(a, b) ==
    (IF a.nan THEN 0 ELSE a.num) * b.den > (IF b.nan THEN 0 ELSE b.num) * a.den

(* a > b on floats: False when either side is NaN *)
GT(a, b) == ~a.nan /\ ~b.nan /\ a.num * b.den > b.num * a.den

(* a < b with the operands exchanged, as when the entry test is copied to the exit test *)
LTSwapped(a, b) == ~a.nan /\ ~b.nan /\ b.num * a.den < a.num * b.den

(* a < b that also accepts equality *)
LTOrEqual(a, b) == ~a.nan /\ ~b.nan /\ a.num * b.den =< b.num * a.den

(* a < b on floats: False when either side is NaN *)
LT(a, b) == ~a.nan /\ ~b.nan /\ a.num * b.den < b.num * a.den

----------------------------------------------------------------------------
(* talib.MA(values, timeperiod): simple moving average, NaN during the lookback *)

RECURSIVE SumRange(_, _, _)
SumRange(s, lo, hi) ==
    IF lo > hi THEN 0
    ELSE IF lo = hi THEN s[lo]
    ELSE SumRange(s, lo, (lo + hi) \div 2) + SumRange(s, (lo + hi) \div 2 + 1, hi)

(* TA_MA rejects timeperiod < 1 with TA_BAD_PARAM *)
TalibFails(timeperiod) == timeperiod < 1

(* a moving average whose lookback is one bar short: defined from timeperiod - 1 *)
(* prices on, averaging the prices available                                     *)
TalibMAShortLookback(values, timeperiod) ==
    [i \in 1..Len(values) |->
        IF i < timeperiod - 1 THEN NaN
        ELSE [nan |-> FALSE,
              num |-> SumRange(values, IF i - timeperiod + 1 < 1 THEN 1
                                       ELSE i - timeperiod + 1, i),
              den |-> timeperiod]]

TalibMA(values, timeperiod) ==
    [i \in 1..Len(values) |->
        IF i < timeperiod THEN NaN
        ELSE [nan |-> FALSE,
              num |-> SumRange(values, i - timeperiod + 1, i),
              den |-> timeperiod]]

----------------------------------------------------------------------------
(* Element-wise operations on boolean Series *)

SeriesGT(a, b) == [i \in 1..Len(a) |-> GT(a[i], b[i])]

SeriesLT(a, b) == [i \in 1..Len(a) |-> LT(a[i], b[i])]

(* a shift by two positions instead of one *)
ShiftByTwo(s, fill_value) ==
    [i \in 1..Len(s) |-> IF i =< 2 THEN fill_value ELSE s[i - 2]]

(* Series.shift(1, fill_value) *)
Shift(s, fill_value) ==
    [i \in 1..Len(s) |-> IF i = 1 THEN fill_value ELSE s[i - 1]]

Invert(s) == [i \in 1..Len(s) |-> ~s[i]]

SeriesAnd(a, b) == [i \in 1..Len(a) |-> a[i] /\ b[i]]

(* GoldenCrossStrategy.generate_signals *)
generate_signals(fast, slow) ==
    LET fast_above == SeriesGT(fast, slow)
        fast_below == SeriesLT(fast, slow)
    IN  [entries |-> SeriesAnd(fast_above, Invert(Shift(fast_above, FALSE))),
         exits   |-> SeriesAnd(fast_below, Invert(Shift(fast_below, FALSE)))]

----------------------------------------------------------------------------
(* GoldenCrossStrategy.__init__ *)

AttrsOf(fast_window, slow_window, initial_cash, fees) ==
    {<<"fast_window", fast_window>>, <<"slow_window", slow_window>>,
     <<"initial_cash", initial_cash>>, <<"fees", fees>>}

Attr(obj, name) == (CHOOSE a \in obj : a[1] = name)[2]

(* a constructor that rejects only fast_window > slow_window *)
StrategyInitStrict(fast_window, slow_window, initial_cash, fees) ==
    IF fast_window > slow_window
    THEN [self |-> {}, raised |-> "ValueError: fast window must be smaller"]
    ELSE [self |-> AttrsOf(fast_window, slow_window, initial_cash, fees),
          raised |-> "none"]

StrategyInit(fast_window, slow_window, initial_cash, fees) ==
    IF fast_window >= slow_window
    THEN [self |-> {}, raised |-> "ValueError: fast window must be smaller"]
    ELSE [self |-> AttrsOf(fast_window, slow_window, initial_cash, fees),
          raised |-> "none"]

(* GoldenCrossStrategy.calculate_indicators *)
calculate_indicators(obj, close) ==
    [fast_ma |-> TalibMA(close, Attr(obj, "fast_window")),
     slow_ma |-> TalibMA(close, Attr(obj, "slow_window"))]

----------------------------------------------------------------------------
(* Exact arithmetic for money amounts: a quotient num / den in lowest terms *)

RECURSIVE GCD(_, _)
GCD(a, b) == IF b = 0 THEN a ELSE GCD(b, a % b)

Abs(n) == IF n < 0 THEN 0 - n ELSE n

Rat(n, d) ==
    LET g == GCD(Abs(n), d)
    IN  [num |-> n \div g, den |-> d \div g]

Zero == [num |-> 0, den |-> 1]

One == [num |-> 1, den |-> 1]

RatMul(a, b) ==
    LET g1 == GCD(Abs(a.num), b.den)
        g2 == GCD(Abs(b.num), a.den)
    IN  [num |-> (a.num \div g1) * (b.num \div g2),
         den |-> (a.den \div g2) * (b.den \div g1)]

(* a / b for b > 0 *)
RatDiv(a, b) == RatMul(a, [num |-> b.den, den |-> b.num])

RatAdd(a, b) ==
    LET g == GCD(a.den, b.den)
    IN  Rat(a.num * (b.den \div g) + b.num * (a.den \div g), (a.den \div g) * b.den)

RatSub(a, b) == RatAdd(a, [num |-> 0 - b.num, den |-> b.den])

(* a < b, by comparing the continued-fraction expansions *)
RECURSIVE RatLess(_, _)
RatLess(a, b) ==
    LET qa == a.num \div a.den
        qb == b.num \div b.den
        ra == a.num % a.den
        rb == b.num % b.den
    IN  IF qa # qb THEN qa < qb
        ELSE IF rb = 0 THEN FALSE
        ELSE IF ra = 0 THEN TRUE
        ELSE RatLess([num |-> b.den, den |-> rb], [num |-> a.den, den |-> ra])

----------------------------------------------------------------------------
(* Column labels: f"Fast={fast_w}, Slow={slow_w}" and the parsing of them *)

DigitChars == <<"0", "1", "2", "3", "4", "5", "6", "7", "8", "9">>

RECURSIVE FormatInt(_)
FormatInt(n) ==
    IF n < 10 THEN <<DigitChars[n + 1]>>
    ELSE Append(FormatInt(n \div 10), DigitChars[(n % 10) + 1])

FormatLabel(fast_w, slow_w) ==
    <<"F", "a", "s", "t", "=">> \o FormatInt(fast_w)
        \o <<",", " ", "S", "l", "o", "w", "=">> \o FormatInt(slow_w)

(* str.split(sep) *)
RECURSIVE Split(_, _)
Split(s, sep) ==
    IF \A i \in 1..Len(s) : s[i] # sep THEN <<s>>
    ELSE LET k == CHOOSE i \in 1..Len(s) : s[i] = sep /\ \A j \in 1..(i - 1) : s[j] # sep
         IN  <<SubSeq(s, 1, k - 1)>> \o Split(SubSeq(s, k + 1, Len(s)), sep)

DigitValue(c) == CHOOSE d \in 0..9 : DigitChars[d + 1] = c

(* int(text) of a string of decimal digits *)
RECURSIVE ParseInt(_)
ParseInt(s) ==
    IF Len(s) = 0 THEN 0
    ELSE ParseInt(SubSeq(s, 1, Len(s) - 1)) * 10 + DigitValue(s[Len(s)])

(* int(label.split(",")[0].split("=")[1]) *)
LabelFast(label) == ParseInt(Split(Split(label, ",")[1], "=")[2])

(* int(label.split("=")[2]) *)
LabelSlow(label) == ParseInt(Split(label, "=")[3])

----------------------------------------------------------------------------
(* vbt.Portfolio.from_signals(close, entries, exits, init_cash, fees, freq) *)

(* A portfolio is represented by the arguments that determine it: the close      *)
(* matrix, the signal columns after broadcasting, the cash and the fee rate.      *)

(* The simulation of one column with the defaults of from_signals: long only,     *)
(* size = inf (all the cash), no accumulation, a bar that is both an entry and    *)
(* an exit places no order.  Amounts are in units of init_cash, so the cash       *)
(* starts at 1.  A buy of all the cash c at price p gets c / (p * (1 + fees))     *)
(* shares; a sale of s shares at price p gets s * p * (1 - fees) cash.            *)

(* fees are given in units of 1 / FeeUnit *)
FeeUnit == 100000

OnePlusFees(fees) == Rat(FeeUnit + fees, FeeUnit)

OneMinusFees(fees) == Rat(FeeUnit - fees, FeeUnit)

Price(p) == [num |-> p, den |-> 1]

EmptyColumn ==
    [cash |-> <<>>, shares |-> <<>>, trades |-> <<>>, value |-> <<>>, returns |-> <<>>]

(* value of the holdings at a price, in units of init_cash *)
ValueOf(cash, shares, price) == RatAdd(cash, RatMul(shares, Price(price)))

(* an exit signal while flat opens a short position of all the cash *)
OrderAtBarShortOnExit(cash, shares, price, entry, exit, fees) ==
    IF entry /\ ~exit /\ shares.num = 0
    THEN [side |-> "buy", cash |-> Zero,
          shares |-> RatDiv(cash, RatMul(Price(price), OnePlusFees(fees)))]
    ELSE IF exit /\ ~entry /\ shares.num > 0
    THEN [side |-> "sell", cash |-> RatMul(RatMul(shares, Price(price)), OneMinusFees(fees)),
          shares |-> Zero]
    ELSE IF exit /\ ~entry
    THEN [side |-> "sell", cash |-> RatAdd(cash, cash),
          shares |-> RatSub(Zero, RatDiv(cash, Price(price)))]
    ELSE [side |-> "none", cash |-> cash, shares |-> shares]

(* the order of one bar and the holdings after it *)
OrderAtBar(cash, shares, price, entry, exit, fees) ==
    IF entry /\ ~exit /\ shares.num = 0
    THEN [side |-> "buy", cash |-> Zero,
          shares |-> RatDiv(cash, RatMul(Price(price), OnePlusFees(fees)))]
    ELSE IF exit /\ ~entry /\ shares.num > 0
    THEN [side |-> "sell", cash |-> RatMul(RatMul(shares, Price(price)), OneMinusFees(fees)),
          shares |-> Zero]
    ELSE [side |-> "none", cash |-> cash, shares |-> shares]

(* the trade records: a buy opens a trade, a sale closes the open one; pnl is    *)
(* the proceeds minus the cost, for an open trade valued at the last close       *)
TradesAfter(trades, order, bar, cash_before) ==
    IF order.side = "buy"
    THEN Append(trades, [entry_idx |-> bar, exit_idx |-> 0, status |-> "Open",
                         cost |-> cash_before, pnl |-> Zero])
    ELSE IF order.side = "sell" /\ trades # <<>> /\ trades[Len(trades)].status = "Open"
    THEN [trades EXCEPT ![Len(trades)] =
             [@ EXCEPT !.exit_idx = bar, !.status = "Closed",
                       !.pnl = RatSub(order.cash, trades[Len(trades)].cost)]]
    ELSE trades

RECURSIVE SimulateFrom(_, _, _, _, _, _)
SimulateFrom(bar, close, entries_col, exits_col, fees, acc) ==
    IF bar > Len(close) THEN acc
    ELSE LET cash_before   == IF bar = 1 THEN One ELSE acc.cash[bar - 1]
             shares_before == IF bar = 1 THEN Zero ELSE acc.shares[bar - 1]
             value_before  == IF bar = 1 THEN One ELSE acc.value[bar - 1]
         IN  CHOOSE result \in
                 {SimulateFrom(bar + 1, close, entries_col, exits_col, fees,
                      [cash    |-> Append(acc.cash, o[1].cash),
                       shares  |-> Append(acc.shares, o[1].shares),
                       trades  |-> TradesAfter(acc.trades, o[1], bar, cash_before),
                       value   |-> Append(acc.value, o[2]),
                       returns |-> Append(acc.returns, RatSub(RatDiv(o[2], value_before), One))]) :
                  o \in {<<ord, ValueOf(ord.cash, ord.shares, close[bar])>> :
                            ord \in {OrderAtBar(cash_before, shares_before, close[bar],
                                                entries_col[bar], exits_col[bar], fees)}}} : TRUE

(* an open trade is valued at the last close *)
MarkOpenTrade(column, close) ==
    IF column.trades # <<>> /\ column.trades[Len(column.trades)].status = "Open"
    THEN [column EXCEPT !.trades[Len(column.trades)].pnl =
             RatSub(column.value[Len(close)], column.trades[Len(column.trades)].cost)]
    ELSE column

SimulateColumn(close, entries_col, exits_col, fees) ==
    MarkOpenTrade(SimulateFrom(1, close, entries_col, exits_col, fees, EmptyColumn), close)

(* numpy broadcasting of a matrix of n_signal columns against n_close columns *)
BroadcastFails(n_close, n_signal) == n_signal # n_close /\ n_signal # 1 /\ n_close # 1

(* every column takes the signals of the first column *)
BroadcastFirstColumn(cols, n_close, idx) == cols[1]

BroadcastColumn(cols, n_close, idx) == IF Len(cols) = 1 THEN cols[1] ELSE cols[idx]

from_signals(close, n_close, entries_cols, exits_cols, init_cash, fees) ==
    [close     |-> close,
     n_columns |-> n_close,
     entries   |-> [idx \in 1..n_close |-> BroadcastColumn(entries_cols, n_close, idx)],
     exits     |-> [idx \in 1..n_close |-> BroadcastColumn(exits_cols, n_close, idx)],
     init_cash |-> init_cash,
     fees      |-> fees,
     columns   |-> [idx \in 1..n_close |->
                       SimulateColumn(close,
                                      BroadcastColumn(entries_cols, n_close, idx),
                                      BroadcastColumn(exits_cols, n_close, idx),
                                      fees)]]

NoPortfolio ==
    [close |-> <<>>, n_columns |-> 0, entries |-> <<>>, exits |-> <<>>,
     init_cash |-> 0, fees |-> 0, columns |-> <<>>]

(* pd.DataFrame({label: series for label, series in zip(labels, columns)}).values:  *)
(* one column per distinct label, in order of first occurrence, holding the series  *)
(* of the last occurrence                                                           *)
FirstOccurrences(labels) ==
    SelectSeq([k \in 1..Len(labels) |-> k],
              LAMBDA k : \A j \in 1..(k - 1) : labels[j] # labels[k])

LastOccurrence(labels, k) ==
    CHOOSE j \in 1..Len(labels) :
        labels[j] = labels[k] /\ \A m \in (j + 1)..Len(labels) : labels[m] # labels[k]

DataFrameColumns(labels, columns) ==
    LET firsts == FirstOccurrences(labels)
    IN  [c \in 1..Len(firsts) |-> columns[LastOccurrence(labels, firsts[c])]]

----------------------------------------------------------------------------
(* Metrics of one portfolio column.  A metric is a float: NaN, +inf or a      *)
(* quotient.  The finite value of a ratio metric (Sharpe, Sortino, Calmar) is  *)
(* an irrational multiple of a quotient and is kept up to its sign.            *)

FNaN == [nan |-> TRUE, inf |-> FALSE, num |-> 0, den |-> 1]

FInf == [nan |-> FALSE, inf |-> TRUE, num |-> 0, den |-> 1]

Fin(r) == [nan |-> FALSE, inf |-> FALSE, num |-> r.num, den |-> r.den]

(* x * k for a positive integer k *)
FloatTimes(x, k) ==
    IF x.nan \/ x.inf THEN x ELSE Fin(RatMul([num |-> x.num, den |-> x.den], Rat(k, 1)))

Sign(r) == IF r.num > 0 THEN One ELSE IF r.num < 0 THEN Rat(0 - 1, 1) ELSE Zero

RECURSIVE SumOfRange(_, _, _)
SumOfRange(rs, lo, hi) ==
    IF lo > hi THEN Zero
    ELSE IF lo = hi THEN rs[lo]
    ELSE RatAdd(SumOfRange(rs, lo, (lo + hi) \div 2),
                SumOfRange(rs, (lo + hi) \div 2 + 1, hi))

SumOf(rs) == SumOfRange(rs, 1, Len(rs))

(* portfolio.trades.count() *)
trades_count(pf, idx) == Len(pf.columns[idx].trades)

WinningTrades(pf, idx) ==
    Cardinality({t \in 1..Len(pf.columns[idx].trades) : pf.columns[idx].trades[t].pnl.num > 0})

(* portfolio.trades.win_rate(): winning count / count, 0 / 0 = NaN *)
trades_win_rate(pf, idx) ==
    IF trades_count(pf, idx) = 0 THEN FNaN
    ELSE Fin(Rat(WinningTrades(pf, idx), trades_count(pf, idx)))

(* the return of holding the asset from the first bar on *)
total_return_buy_and_hold(pf, idx) ==
    Fin(Rat(pf.close[Len(pf.close)] - pf.close[1], pf.close[1]))

(* portfolio.total_return() *)
total_return(pf, idx) ==
    Fin(RatSub(pf.columns[idx].value[Len(pf.close)], One))

(* portfolio.sharpe_ratio(): mean / std * sqrt(365), inf when std = 0 *)
sharpe_ratio(pf, idx) ==
    IF \A i \in 1..Len(pf.close) : pf.columns[idx].returns[i] = pf.columns[idx].returns[1]
    THEN FInf
    ELSE Fin(Sign(SumOf(pf.columns[idx].returns)))

(* portfolio.sortino_ratio(): mean * 365 / downside risk, inf when no bar lost *)
sortino_ratio(pf, idx) ==
    IF \A i \in 1..Len(pf.close) : pf.columns[idx].returns[i].num >= 0
    THEN FInf
    ELSE Fin(Sign(SumOf(pf.columns[idx].returns)))

(* the deepest fall of the value below its running peak, as a quotient <= 0 *)
RECURSIVE DrawdownFrom(_, _, _, _)
DrawdownFrom(bar, values, peak, worst) ==
    IF bar > Len(values) THEN worst
    ELSE IF ~RatLess(values[bar], peak)
    THEN DrawdownFrom(bar + 1, values, values[bar], worst)
    ELSE LET fall == RatSub(RatDiv(values[bar], peak), One)
         IN  DrawdownFrom(bar + 1, values, peak, IF RatLess(fall, worst) THEN fall ELSE worst)

(* portfolio.max_drawdown() *)
max_drawdown(pf, idx) == Fin(DrawdownFrom(1, pf.columns[idx].value, One, Zero))

(* portfolio.calmar_ratio(): annualized return / |max drawdown|, NaN when the   *)
(* drawdown is 0, that is when no bar lost; the annualized return has the sign  *)
(* of the total return                                                          *)
calmar_ratio(pf, idx) ==
    IF \A i \in 1..Len(pf.close) : pf.columns[idx].returns[i].num >= 0 THEN FNaN
    ELSE Fin(Sign(total_return(pf, idx)))

----------------------------------------------------------------------------
(* The nested loops over fast_range (outer) and slow_range (inner) *)

InnerPairs(fast_w, slow_range) ==
    [j \in 1..Len(slow_range) |-> <<fast_w, slow_range[j]>>]

RECURSIVE GridPairsSlowOuter(_, _)
GridPairsSlowOuter(fast_range, slow_range) ==
    IF slow_range = <<>> THEN <<>>
    ELSE [i \in 1..Len(fast_range) |-> <<fast_range[i], Head(slow_range)>>]
             \o GridPairsSlowOuter(fast_range, Tail(slow_range))

RECURSIVE GridPairs(_, _)
GridPairs(fast_range, slow_range) ==
    IF fast_range = <<>> THEN <<>>
    ELSE InnerPairs(Head(fast_range), slow_range) \o GridPairs(Tail(fast_range), slow_range)

EmptyGrid ==
    [all_entries |-> <<>>, all_exits |-> <<>>, param_labels |-> <<>>,
     computed |-> {}, failed |-> "none"]

----------------------------------------------------------------------------
(* replay/strategies/goldencross.py: optimize_golden_cross *)

(* a skip test that also drops the pairs whose windows differ by one *)
SkipPairOffByOne(fast_w, slow_w) == fast_w >= slow_w - 1

SkipPair(fast_w, slow_w) == fast_w >= slow_w

(* a loop that leaves a failing row out and goes on with the next pair *)
RECURSIVE GridLoopSkipsFailedRow(_, _, _, _, _)
GridLoopSkipsFailedRow(pairs, close, initial_cash, fees, acc) ==
    IF pairs = <<>> THEN acc
    ELSE LET fast_w == Head(pairs)[1]
             slow_w == Head(pairs)[2]
         IN  IF SkipPair(fast_w, slow_w) \/ TalibFails(fast_w) \/ TalibFails(slow_w)
             THEN GridLoopSkipsFailedRow(Tail(pairs), close, initial_cash, fees, acc)
             ELSE LET strategy == StrategyInit(fast_w, slow_w, initial_cash, fees)
                      ma  == calculate_indicators(strategy.self, close)
                      sig == generate_signals(ma.fast_ma, ma.slow_ma)
                  IN  GridLoopSkipsFailedRow(Tail(pairs), close, initial_cash, fees,
                          [acc EXCEPT
                              !.all_entries  = Append(@, sig.entries),
                              !.all_exits    = Append(@, sig.exits),
                              !.param_labels = Append(@, FormatLabel(fast_w, slow_w)),
                              !.computed     = @ \cup {<<fast_w, slow_w>>}])

RECURSIVE GridLoop(_, _, _, _, _)
GridLoop(pairs, close, initial_cash, fees, acc) ==
    IF pairs = <<>> THEN acc
    ELSE LET fast_w == Head(pairs)[1]
             slow_w == Head(pairs)[2]
         IN  IF SkipPair(fast_w, slow_w)
             THEN GridLoop(Tail(pairs), close, initial_cash, fees, acc)
             ELSE LET strategy == StrategyInit(fast_w, slow_w, initial_cash, fees)
                  IN  IF strategy.raised # "none"
                      THEN [acc EXCEPT !.failed = strategy.raised]
                      ELSE IF TalibFails(fast_w) \/ TalibFails(slow_w)
                      THEN [acc EXCEPT !.failed = "Exception: TA_BAD_PARAM"]
                      ELSE LET ma  == calculate_indicators(strategy.self, close)
                               sig == generate_signals(ma.fast_ma, ma.slow_ma)
                           IN  GridLoop(Tail(pairs), close, initial_cash, fees,
                                   [acc EXCEPT
                                       !.all_entries  = Append(@, sig.entries),
                                       !.all_exits    = Append(@, sig.exits),
                                       !.param_labels = Append(@, FormatLabel(fast_w, slow_w)),
                                       !.computed     = @ \cup {<<fast_w, slow_w>>}])

Failure(exc, grid) ==
    [raised |-> exc, logged |-> <<"Golden Cross optimization failed">>,
     computed |-> grid.computed, portfolio |-> NoPortfolio,
     entries_df |-> <<>>, exits_df |-> <<>>,
     param_labels |-> <<>>, results_df |-> <<>>]

(* a check for an empty grid that is never taken *)
NoSurvivorsNever(grid) == FALSE

NoSurvivors(grid) == grid.all_entries = <<>>

(* win_rate = 0.0; if num_trades > 0: win_rate = portfolio.trades.win_rate() *)
RowWinRate(pf, idx) ==
    IF trades_count(pf, idx) > 0 THEN trades_win_rate(pf, idx) ELSE Fin(Zero)

ResultRows(pf, labels) ==
    [idx \in 1..Len(labels) |->
        [FastMA       |-> LabelFast(labels[idx]),
         SlowMA       |-> LabelSlow(labels[idx]),
         TotalReturn  |-> FloatTimes(total_return(pf, idx), 100),
         SharpeRatio  |-> sharpe_ratio(pf, idx),
         SortinoRatio |-> sortino_ratio(pf, idx),
         CalmarRatio  |-> calmar_ratio(pf, idx),
         MaxDrawdown  |-> FloatTimes(max_drawdown(pf, idx), 100),
         WinRate      |-> FloatTimes(RowWinRate(pf, idx), 100),
         NumTrades    |-> trades_count(pf, idx)]]

(* return portfolio, results_df, param_labels *)
OptimizeResult(grid, pf) ==
    [raised       |-> "none",
     logged       |-> <<>>,
     computed     |-> grid.computed,
     portfolio    |-> pf,
     entries_df   |-> DataFrameColumns(grid.param_labels, grid.all_entries),
     exits_df     |-> DataFrameColumns(grid.param_labels, grid.all_exits),
     param_labels |-> grid.param_labels,
     results_df   |-> ResultRows(pf, grid.param_labels)]

(* the steps of optimize_golden_cross after the loops *)
OptimizeAfterLoop(grid, close, initial_cash, fees) ==
    LET entries_cols == DataFrameColumns(grid.param_labels, grid.all_entries)
        exits_cols   == DataFrameColumns(grid.param_labels, grid.all_exits)
        n_close      == Len(grid.param_labels)
    IN  IF grid.failed # "none" THEN Failure(grid.failed, grid)
        ELSE IF NoSurvivors(grid)
        THEN Failure("ValueError: No valid parameter combinations found", grid)
        ELSE IF BroadcastFails(n_close, Len(entries_cols))
        THEN [Failure("ValueError: shape mismatch", grid)
                 EXCEPT !.entries_df = entries_cols, !.exits_df = exits_cols,
                        !.param_labels = grid.param_labels]
        ELSE CHOOSE r \in {OptimizeResult(grid, pf) :
                             pf \in {from_signals(close, n_close, entries_cols, exits_cols,
                                                  initial_cash, fees)}} : TRUE

optimize_golden_cross(close, fast_range, slow_range, initial_cash, fees) ==
    CHOOSE r \in {OptimizeAfterLoop(grid, close, initial_cash, fees) :
                     grid \in {GridLoop(GridPairs(fast_range, slow_range), close,
                                        initial_cash, fees, EmptyGrid)}} : TRUE

----------------------------------------------------------------------------
(* replay/strategies/goldencross.py: GoldenCrossStrategy.run_backtest *)

run_backtest(obj, close) ==
    IF TalibFails(Attr(obj, "fast_window")) \/ TalibFails(Attr(obj, "slow_window"))
    THEN [raised |-> "Exception: TA_BAD_PARAM",
          logged |-> <<"Golden Cross backtest failed">>,
          computed |-> {}, portfolio |-> NoPortfolio,
          fast_ma |-> <<>>, slow_ma |-> <<>>, entries |-> <<>>, exits |-> <<>>]
    ELSE LET ma  == calculate_indicators(obj, close)
             sig == generate_signals(ma.fast_ma, ma.slow_ma)
         IN  [raised |-> "none",
              logged |-> <<>>,
              computed |-> {<<Attr(obj, "fast_window"), Attr(obj, "slow_window")>>},
              portfolio |-> from_signals(close, 1, <<sig.entries>>, <<sig.exits>>,
                                         Attr(obj, "initial_cash"), Attr(obj, "fees")),
              fast_ma |-> ma.fast_ma, slow_ma |-> ma.slow_ma,
              entries |-> sig.entries, exits |-> sig.exits]

----------------------------------------------------------------------------
(* desk/stats/metrics.py: display_backtest_metrics *)

(* the st.metric values of the performance and statistics rows *)
display_backtest_metrics(pf, close) ==
    [TotalReturn  |-> FloatTimes(total_return(pf, 1), 100),
     SharpeRatio  |-> sharpe_ratio(pf, 1),
     MaxDrawdown  |-> FloatTimes(max_drawdown(pf, 1), 100),
     WinRate      |-> FloatTimes(trades_win_rate(pf, 1), 100),
     TotalTrades  |-> trades_count(pf, 1),
     CalmarRatio  |-> calmar_ratio(pf, 1),
     SortinoRatio |-> sortino_ratio(pf, 1)]

----------------------------------------------------------------------------
(* replay/pages/goldencross.py: run_golden_cross_backtest *)

page_signals(fast, slow) ==
    LET fast_above == SeriesGT(fast, slow)
        fast_below == SeriesLT(fast, slow)
    IN  [entries |-> SeriesAnd(fast_above, Invert(Shift(fast_above, FALSE))),
         exits   |-> SeriesAnd(fast_below, Invert(Shift(fast_below, FALSE)))]

(* a handler that swallows the exception: no notice, no log record *)
run_golden_cross_backtest_swallows(close, fast_window, slow_window, initial_cash, fees) ==
    IF TalibFails(fast_window) \/ TalibFails(slow_window)
    THEN [st_error |-> <<>>,
          logged |-> <<>>,
          st_metrics |-> <<>>,
          computed |-> {}, portfolio |-> NoPortfolio,
          fast_ma |-> <<>>, slow_ma |-> <<>>, entries |-> <<>>, exits |-> <<>>]
    ELSE LET fast == TalibMA(close, fast_window)
             slow == TalibMA(close, slow_window)
             sig  == page_signals(fast, slow)
         IN  CHOOSE r \in {[st_error |-> <<>>,
                             logged |-> <<>>,
                             st_metrics |-> <<display_backtest_metrics(pf, close)>>,
                             computed |-> {<<fast_window, slow_window>>},
                             portfolio |-> pf,
                             fast_ma |-> fast, slow_ma |-> slow,
                             entries |-> sig.entries, exits |-> sig.exits] :
                            pf \in {from_signals(close, 1, <<sig.entries>>, <<sig.exits>>,
                                                 initial_cash, fees)}} : TRUE

run_golden_cross_backtest(close, fast_window, slow_window, initial_cash, fees) ==
    IF TalibFails(fast_window) \/ TalibFails(slow_window)
    THEN [st_error |-> <<"Backtest failed">>,
          logged |-> <<"Golden Cross backtest failed">>,
          st_metrics |-> <<>>,
          computed |-> {}, portfolio |-> NoPortfolio,
          fast_ma |-> <<>>, slow_ma |-> <<>>, entries |-> <<>>, exits |-> <<>>]
    ELSE LET fast == TalibMA(close, fast_window)
             slow == TalibMA(close, slow_window)
             sig  == page_signals(fast, slow)
         IN  CHOOSE r \in {[st_error |-> <<>>,
                             logged |-> <<>>,
                             st_metrics |-> <<display_backtest_metrics(pf, close)>>,
                             computed |-> {<<fast_window, slow_window>>},
                             portfolio |-> pf,
                             fast_ma |-> fast, slow_ma |-> slow,
                             entries |-> sig.entries, exits |-> sig.exits] :
                            pf \in {from_signals(close, 1, <<sig.entries>>, <<sig.exits>>,
                                                 initial_cash, fees)}} : TRUE

----------------------------------------------------------------------------
(* replay/pages/goldencross.py: run_golden_cross_optimization *)

RECURSIVE PageGridPairs(_, _)
PageGridPairs(fast_range, slow_range) ==
    IF fast_range = <<>> THEN <<>>
    ELSE [j \in 1..Len(slow_range) |-> <<Head(fast_range), slow_range[j]>>]
             \o PageGridPairs(Tail(fast_range), slow_range)

PageSkipPair(fast_w, slow_w) == fast_w >= slow_w

RECURSIVE PageGridLoop(_, _, _)
PageGridLoop(pairs, close, acc) ==
    IF pairs = <<>> THEN acc
    ELSE LET fast_w == Head(pairs)[1]
             slow_w == Head(pairs)[2]
         IN  IF PageSkipPair(fast_w, slow_w)
             THEN PageGridLoop(Tail(pairs), close, acc)
             ELSE IF TalibFails(fast_w) \/ TalibFails(slow_w)
             THEN [acc EXCEPT !.failed = "Exception: TA_BAD_PARAM"]
             ELSE LET sig == page_signals(TalibMA(close, fast_w), TalibMA(close, slow_w))
                  IN  PageGridLoop(Tail(pairs), close,
                          [acc EXCEPT
                              !.all_entries  = Append(@, sig.entries),
                              !.all_exits    = Append(@, sig.exits),
                              !.param_labels = Append(@, FormatLabel(fast_w, slow_w)),
                              !.computed     = @ \cup {<<fast_w, slow_w>>}])

(* if not all_entries: st.error(...); return *)
PageNoCombinations(grid) ==
    [st_error |-> <<"No valid parameter combinations found">>, logged |-> <<>>,
     computed |-> grid.computed, portfolio |-> NoPortfolio,
     entries_df |-> <<>>, exits_df |-> <<>>,
     param_labels |-> <<>>, results_df |-> <<>>]

(* except Exception: st.error(...); logger.exception(...) *)
PageUnexpected(grid) ==
    [st_error |-> <<"Optimization failed">>,
     logged |-> <<"Golden Cross optimization failed">>,
     computed |-> grid.computed, portfolio |-> NoPortfolio,
     entries_df |-> <<>>, exits_df |-> <<>>,
     param_labels |-> <<>>, results_df |-> <<>>]

PageNoSurvivors(grid) == grid.all_entries = <<>>

PageRowWinRate(pf, idx) ==
    IF trades_count(pf, idx) > 0 THEN trades_win_rate(pf, idx) ELSE Fin(Zero)

PageResultRows(pf, labels) ==
    [idx \in 1..Len(labels) |->
        [FastMA       |-> LabelFast(labels[idx]),
         SlowMA       |-> LabelSlow(labels[idx]),
         TotalReturn  |-> FloatTimes(total_return(pf, idx), 100),
         SharpeRatio  |-> sharpe_ratio(pf, idx),
         SortinoRatio |-> sortino_ratio(pf, idx),
         CalmarRatio  |-> calmar_ratio(pf, idx),
         MaxDrawdown  |-> FloatTimes(max_drawdown(pf, idx), 100),
         WinRate      |-> FloatTimes(PageRowWinRate(pf, idx), 100),
         NumTrades    |-> trades_count(pf, idx)]]

(* the page after the simulation of the grid *)
PageResult(grid, pf) ==
    [st_error     |-> <<>>,
     logged       |-> <<>>,
     computed     |-> grid.computed,
     portfolio    |-> pf,
     entries_df   |-> DataFrameColumns(grid.param_labels, grid.all_entries),
     exits_df     |-> DataFrameColumns(grid.param_labels, grid.all_exits),
     param_labels |-> grid.param_labels,
     results_df   |-> PageResultRows(pf, grid.param_labels)]

(* the steps of run_golden_cross_optimization after the loops *)
PageAfterLoop(grid, close, initial_cash, fees) ==
    LET entries_cols == DataFrameColumns(grid.param_labels, grid.all_entries)
        exits_cols   == DataFrameColumns(grid.param_labels, grid.all_exits)
        n_close      == Len(grid.param_labels)
    IN  IF grid.failed # "none" THEN PageUnexpected(grid)
        ELSE IF PageNoSurvivors(grid) THEN PageNoCombinations(grid)
        ELSE IF BroadcastFails(n_close, Len(entries_cols))
        THEN [PageUnexpected(grid)
                 EXCEPT !.entries_df = entries_cols, !.exits_df = exits_cols,
                        !.param_labels = grid.param_labels]
        ELSE CHOOSE r \in {PageResult(grid, pf) :
                             pf \in {from_signals(close, n_close, entries_cols, exits_cols,
                                                  initial_cash, fees)}} : TRUE

run_golden_cross_optimization(close, fast_range, slow_range, initial_cash, fees) ==
    CHOOSE r \in {PageAfterLoop(grid, close, initial_cash, fees) :
                     grid \in {PageGridLoop(PageGridPairs(fast_range, slow_range),
                                            close, EmptyGrid)}} : TRUE

----------------------------------------------------------------------------
(* replay/pages/goldencross.py: ranking of the result table *)

Metrics == {"Sharpe Ratio", "Total Return", "Calmar Ratio", "Sortino Ratio", "Win Rate"}

(* the option the selectbox starts with *)
DefaultMetric == "Sharpe Ratio"

metric_column_map ==
    [m \in Metrics |->
        CASE m = "Sharpe Ratio"  -> "SharpeRatio"
          [] m = "Total Return"  -> "TotalReturn"
          [] m = "Calmar Ratio"  -> "CalmarRatio"
          [] m = "Sortino Ratio" -> "SortinoRatio"
          [] m = "Win Rate"      -> "WinRate"]

(* a < b on floats that are not NaN *)
FloatLess(a, b) ==
    IF a.inf THEN FALSE
    ELSE IF b.inf THEN TRUE
    ELSE RatLess([num |-> a.num, den |-> a.den], [num |-> b.num, den |-> b.den])

(* the sequence without its first occurrence of x *)
RemoveFirst(rows, x) ==
    LET k == CHOOSE i \in 1..Len(rows) : rows[i] = x /\ \A j \in 1..(i - 1) : rows[j] # x
    IN  SubSeq(rows, 1, k - 1) \o SubSeq(rows, k + 1, Len(rows))

(* the orders in which a descending sort that is not stable can leave the rows:  *)
(* any row of largest key first                                                  *)
RECURSIVE DescendingOrders(_, _)
DescendingOrders(rows, column) ==
    IF rows = <<>> THEN {<<>>}
    ELSE LET largest == {rows[i] : i \in {i \in 1..Len(rows) :
                            \A j \in 1..Len(rows) : ~FloatLess(rows[i][column], rows[j][column])}}
         IN  UNION {{<<x>> \o rest : rest \in DescendingOrders(RemoveFirst(rows, x), column)} :
                       x \in largest}

(* results_df.sort_values(sort_column, ascending=False): kind = "quicksort",      *)
(* na_position = "last"; the rows with a NaN key follow in their original order   *)
sort_values(rows, column) ==
    {sorted \o SelectSeq(rows, LAMBDA row : row[column].nan) :
        sorted \in DescendingOrders(SelectSeq(rows, LAMBDA row : ~row[column].nan), column)}

(* rows shown by st.dataframe(results_df_sorted.head(10)) *)
TopRows == 10

head(rows, n) == SubSeq(rows, 1, IF Len(rows) < n THEN Len(rows) ELSE n)

(* results_df.pivot(index="Slow MA", columns="Fast MA", ...) raises on a         *)
(* repeated (Slow MA, Fast MA) pair                                              *)
PivotFails(rows) ==
    \E i \in 1..Len(rows), j \in 1..Len(rows) :
        i < j /\ rows[i].FastMA = rows[j].FastMA /\ rows[i].SlowMA = rows[j].SlowMA

(* the columns of results_df, in the order of the keys of a results_data row *)
results_columns ==
    <<"Fast MA", "Slow MA", "Total Return (%)", "Sharpe Ratio", "Sortino Ratio",
      "Calmar Ratio", "Max Drawdown (%)", "Win Rate (%)", "Num Trades">>

(* the field of a row record that holds the column *)
ColumnField ==
    [c \in {results_columns[i] : i \in 1..Len(results_columns)} |->
        CASE c = "Fast MA"          -> "FastMA"
          [] c = "Slow MA"          -> "SlowMA"
          [] c = "Total Return (%)" -> "TotalReturn"
          [] c = "Sharpe Ratio"     -> "SharpeRatio"
          [] c = "Sortino Ratio"    -> "SortinoRatio"
          [] c = "Calmar Ratio"     -> "CalmarRatio"
          [] c = "Max Drawdown (%)" -> "MaxDrawdown"
          [] c = "Win Rate (%)"     -> "WinRate"
          [] c = "Num Trades"       -> "NumTrades"]

(* DataFrame.to_csv(index=False): one line of column names, then one line per row *)
(* with the values of the columns in column order                                 *)
to_csv(rows) ==
    [header |-> results_columns,
     data   |-> [k \in 1..Len(rows) |->
                    [c \in 1..Len(results_columns) |->
                        rows[k][ColumnField[results_columns[c]]]]]]

(* a sort in place: the table itself takes the ranked order *)
SortedInPlace(rows, sorted) == sorted

(* results_df after results_df_sorted = results_df.sort_values(...): the call     *)
(* returns a new table (inplace=False) and leaves results_df as it was            *)
SortedFrom(rows, sorted) == rows

(* the page from the ranking on: table of the top rows, best parameters, heatmap, *)
(* detailed backtest of the best parameters, download                             *)
PageShowRanking(r, sorted, close, initial_cash, fees, optimize_metric) ==
    LET best_row  == sorted[1]
        best_fast == best_row.FastMA
        best_slow == best_row.SlowMA
        success   == <<[best_fast |-> best_fast, best_slow |-> best_slow,
                        optimize_metric |-> optimize_metric,
                        value |-> best_row[metric_column_map[optimize_metric]]]>>
    IN  IF PivotFails(r.results_df)
        THEN [st_error |-> <<"Optimization failed">>,
              logged |-> <<"Golden Cross optimization failed">>,
              computed |-> r.computed,
              st_metrics |-> <<>>,
              results_df_sorted |-> sorted,
              st_dataframe |-> <<head(sorted, TopRows)>>,
              st_success |-> success,
              detailed |-> <<>>,
              download |-> <<>>]
        ELSE CHOOSE out \in
                 {[st_error |-> d.st_error,
                   logged |-> d.logged,
                   computed |-> r.computed \cup d.computed,
                   st_metrics |-> d.st_metrics,
                   results_df_sorted |-> sorted,
                   st_dataframe |-> <<head(sorted, TopRows)>>,
                   st_success |-> success,
                   detailed |-> <<[fast_window |-> best_fast, slow_window |-> best_slow,
                                   initial_cash |-> initial_cash, fees |-> fees]>>,
                   download |-> <<to_csv(sorted)>>] :
                  d \in {run_golden_cross_backtest(close, best_fast, best_slow,
                                                  initial_cash, fees)}} : TRUE

----------------------------------------------------------------------------
(* desk/files/upload.py: upload_ohlcv_parquet.  An uploaded file is a record  *)
(* [kind, times]: a parquet file with the expected columns ("ok"), one that   *)
(* lacks an expected column, or one pd.read_parquet cannot read; times are    *)
(* the values of its time column in row order, oldest first as OHLCV.fetch    *)
(* returns them and OHLCV.to_parquet writes them.  A row of a DataFrame read  *)
(* from a file is [time, file, row]: its timestamp, the position of the file  *)
(* in the upload and its position in the file (standing for the candle's      *)
(* values, which differ between files).                                       *)

UploadTimes == 1..MaxTime

RECURSIVE AscendingTimes(_)
AscendingTimes(T) ==
    IF T = {} THEN <<>>
    ELSE LET least == CHOOSE t \in T : \A u \in T : t =< u
         IN  <<least>> \o AscendingTimes(T \ {least})

UploadedFiles ==
    {[kind |-> "ok", times |-> AscendingTimes(T)] : T \in SUBSET UploadTimes}
        \cup {[kind |-> "missing_column", times |-> <<1>>],
              [kind |-> "unreadable", times |-> <<>>]}

(* what the widget returns: a list of files, or one file or None in single mode *)
Uploads == ListsUpTo(UploadedFiles, MaxFiles)

SingleUploads == ListsUpTo(UploadedFiles, 1)

(* pd.read_parquet(file) *)
read_parquet(files, i) ==
    [k \in 1..Len(files[i].times) |-> [time |-> files[i].times[k], file |-> i, row |-> k]]

NoFrames == [dataframes |-> <<>>, st_error |-> <<>>, logged |-> <<>>]

(* for file in files_to_process: try ... except Exception ... continue *)
RECURSIVE LoadFiles(_, _, _)
LoadFiles(files, i, acc) ==
    IF i > Len(files) THEN acc
    ELSE IF files[i].kind = "unreadable"
    THEN LoadFiles(files, i + 1,
             [acc EXCEPT !.st_error = Append(@, "Error reading"),
                         !.logged = Append(@, "Failed to read parquet file")])
    ELSE IF files[i].kind = "missing_column"
    THEN LoadFiles(files, i + 1, [acc EXCEPT !.st_error = Append(@, "is missing columns")])
    ELSE LoadFiles(files, i + 1,
             [acc EXCEPT !.dataframes = Append(@, read_parquet(files, i))])

(* pd.concat(dataframes, ignore_index=True) *)
RECURSIVE concat(_)
concat(dataframes) ==
    IF dataframes = <<>> THEN <<>> ELSE Head(dataframes) \o concat(Tail(dataframes))

TimesOf(rows) == {rows[k].time : k \in 1..Len(rows)}

(* combined_df.sort_values("time").drop_duplicates(subset=["time"], keep="first")  *)
(*            .reset_index(drop=True): the sort is pandas' default quicksort, which *)
(* is not stable, so the rows of one timestamp come out of it in any order and the *)
(* row kept for a timestamp is any of them.  The set of the possible tables.       *)
SortDropDuplicates(rows) ==
    LET order == AscendingTimes(TimesOf(rows))
    IN  {[k \in 1..Len(order) |-> rows[pick[order[k]]]] :
            pick \in {f \in [TimesOf(rows) -> 1..Len(rows)] :
                         \A t \in TimesOf(rows) : rows[f[t]].time = t}}

None == [none |-> TRUE, rows |-> <<>>]

DataFrame(rows) == [none |-> FALSE, rows |-> rows]

(* uploaded_files if accept_multiple_files, else [uploaded_files] for one file *)
files_to_process(files, multiple) ==
    IF multiple \/ Len(files) = 1 THEN files ELSE <<>>

(* the possible outcomes of upload_ohlcv_parquet for what the widget returned *)
upload_ohlcv_parquet(files, multiple) ==
    IF files = <<>>
    THEN {[df |-> None, st_error |-> <<>>, logged |-> <<>>, st_warning |-> <<>>]}
    ELSE LET loaded == LoadFiles(files_to_process(files, multiple), 1, NoFrames)
         IN  IF loaded.dataframes = <<>>
             THEN {[df |-> None, st_error |-> loaded.st_error, logged |-> loaded.logged,
                    st_warning |-> <<"No valid parquet files were loaded">>]}
             ELSE {[df |-> DataFrame(t), st_error |-> loaded.st_error,
                    logged |-> loaded.logged, st_warning |-> <<>>] :
                      t \in SortDropDuplicates(concat(loaded.dataframes))}

----------------------------------------------------------------------------
(* replay/pages/goldencross.py: goldencross_page, show_single_backtest_ui and  *)
(* show_optimization_ui.  Streamlit reruns the page from the top on every      *)
(* interaction; a rerun draws the widgets with their current values, and the   *)
(* rerun caused by a click on a run button also makes the call behind it.      *)

(* values of the number inputs of show_single_backtest_ui: fast 5..100 and     *)
(* slow 50..500                                                                *)
SingleFastValues == {5, 50, 100}

SingleSlowValues == {50, 100, 200}

(* values of the number inputs of show_optimization_ui: fast min and max       *)
(* 5..100, fast step 1..20, slow min and max 20..500, slow step 1..50          *)
OptFastValues == {5, 15, 25}

OptFastSteps == {15, 20}

OptSlowValues == {SlowMinValue, 40}

OptSlowSteps == {15, 20}

(* Fees (%) as a quotient: 0 % and 0.1 % *)
FeePercents == {Zero, Rat(1, 10)}

PageMetrics == {"Sharpe Ratio", "Win Rate"}

(* close columns of an uploaded table of SlowMinValue + 1 candles: fifteen      *)
(* candles at 2, five at 1 and a last one that stays at 1 or jumps to 6, where *)
(* the 5-candle average crosses above the 20-candle average                    *)
PageCloseSeqs ==
    {[i \in 1..(SlowMinValue + 1) |->
          IF i =< 15 THEN 2 ELSE IF i =< SlowMinValue THEN 1 ELSE b] : b \in {1, 6}}

SingleWidgets ==
    {[NoWidgets EXCEPT !.fast_window = f, !.slow_window = s,
                       !.initial_cash = DefaultInitialCash, !.fees = fe] :
        f \in SingleFastValues, s \in SingleSlowValues, fe \in FeePercents}

OptimizationWidgets ==
    {[NoWidgets EXCEPT !.fast_min = w[1], !.fast_max = w[2], !.fast_step = w[3],
                       !.slow_min = w[4], !.slow_max = w[5], !.slow_step = w[6],
                       !.initial_cash = DefaultInitialCash, !.fees = fe,
                       !.optimize_metric = m] :
        w \in OptFastValues \X OptFastValues \X OptFastSteps
                \X OptSlowValues \X OptSlowValues \X OptSlowSteps,
        fe \in FeePercents, m \in PageMetrics}

(* the percentage passed on as it is *)
PercentKept(percent) == percent

(* fees / 100: percent to decimal *)
PercentToDecimal(percent) == RatDiv(percent, Rat(100, 1))

(* a decimal fee rate in the model's fee unit *)
FeeUnits(rate) == (rate.num * FeeUnit) \div rate.den

(* list(range(start, stop, step)) for a positive step *)
PyRange(start, stop, step) ==
    IF stop =< start THEN <<>>
    ELSE [i \in 1..((stop - start + step - 1) \div step) |-> start + (i - 1) * step]

(* a validation that lets equal windows through *)
show_single_backtest_ui_allows_equal(w) ==
    IF w.fast_window > w.slow_window
    THEN [st_error |-> <<"Fast MA window must be smaller than Slow MA window">>,
          st_warning |-> <<>>, st_info |-> <<>>, button |-> "none"]
    ELSE [st_error |-> <<>>, st_warning |-> <<>>, st_info |-> <<>>,
          button |-> "Run Backtest"]

(* show_single_backtest_ui up to the run button *)
show_single_backtest_ui(w) ==
    IF w.fast_window >= w.slow_window
    THEN [st_error |-> <<"Fast MA window must be smaller than Slow MA window">>,
          st_warning |-> <<>>, st_info |-> <<>>, button |-> "none"]
    ELSE [st_error |-> <<>>, st_warning |-> <<>>, st_info |-> <<>>,
          button |-> "Run Backtest"]

form_fast_range(w) == PyRange(w.fast_min, w.fast_max + 1, w.fast_step)

form_slow_range(w) == PyRange(w.slow_min, w.slow_max + 1, w.slow_step)

num_combinations(w) == Len(form_fast_range(w)) * Len(form_slow_range(w))

(* show_optimization_ui up to the run button *)
show_optimization_ui(w) ==
    IF w.fast_min >= w.fast_max
    THEN [st_error |-> <<"Fast MA min must be less than max">>,
          st_warning |-> <<>>, st_info |-> <<>>, button |-> "none"]
    ELSE IF w.slow_min >= w.slow_max
    THEN [st_error |-> <<"Slow MA min must be less than max">>,
          st_warning |-> <<>>, st_info |-> <<>>, button |-> "none"]
    ELSE [st_error |-> <<>>,
          st_warning |->
              (IF w.fast_max >= w.slow_min
               THEN <<"Fast MA max should be less than Slow MA min">> ELSE <<>>)
              \o (IF num_combinations(w) > 1000
                  THEN <<"Large number of combinations">> ELSE <<>>),
          st_info |-> <<[text |-> "Will test parameter combinations",
                         n |-> num_combinations(w)]>>,
          button |-> "Run Optimization"]

----------------------------------------------------------------------------
(* desk/pages/ohlcv.py and tape/pages/bybit.py: the OHLCV expander of the       *)
(* exchange pages.  st.session_state is a function from the keys present to     *)
(* their values; a value is a record [none, fetch, value]: None, or the value   *)
(* stored after the fetch-th call of OHLCV.fetch.                               *)

Exchanges == {"bybit", "binance"}

PageOf(exchange) == IF exchange = "bybit" THEN "bybit_page" ELSE "binance_page"

ExchangePages == {PageOf(exchange) : exchange \in Exchanges}

SessionKeys == {"candles", "instrument", "start_dt", "end_dt", "timeframe"}

(* options of the instrument select box: symbols of fetch_instruments(exchange) *)
Instruments(exchange) ==
    IF exchange = "bybit" THEN {"BTC/USDT:USDT"} ELSE {"BTC/USDT", "ETH/USDT"}

(* options of the timeframe select box: exchange.timeframes *)
Timeframes == {"1m", "1h"}

(* start and end of the date and time inputs, in milliseconds *)
Timestamps == 1..MaxDt

EmptyValue(key) ==
    IF key = "candles" THEN <<>>
    ELSE IF key \in {"instrument", "timeframe"} THEN ""
    ELSE 0

NoneField(key) == [none |-> TRUE, fetch |-> 0, value |-> EmptyValue(key)]

StoredField(fetch, value) == [none |-> FALSE, fetch |-> fetch, value |-> value]

(* if key not in st.session_state: st.session_state.key = None, for the five keys *)
initialize_candles_session_state(s) ==
    [key \in DOMAIN s \cup SessionKeys |-> IF key \in DOMAIN s THEN s[key] ELSE NoneField(key)]

(* OHLCV.fetch(exchange, symbol, timeframe, since, params): the times of the     *)
(* candles from since to end, oldest first, when the exchange answers            *)
OHLCV_fetch(since, end) == [i \in 1..(IF end >= since THEN end - since + 1 ELSE 0) |-> since + i - 1]

FetchOutcomes == {"returns", "raises"}

(* a handler that stores its inputs before it fetches *)
fetch_and_store_ohlcv_inputs_first(s, fetch, instrument, timeframe, start_dt, end_dt, outcome) ==
    [session_state |->
         [s EXCEPT !["instrument"] = StoredField(fetch, instrument),
                   !["start_dt"] = StoredField(fetch, start_dt),
                   !["end_dt"] = StoredField(fetch, end_dt),
                   !["timeframe"] = StoredField(fetch, timeframe),
                   !["candles"] = IF outcome = "raises" THEN @
                                  ELSE StoredField(fetch, OHLCV_fetch(start_dt, end_dt))],
     raised |-> IF outcome = "raises" THEN "ccxt.ExchangeError" ELSE "none"]

(* fetch_and_store_ohlcv(exchange, instrument, timeframe, start_dt, end_dt) *)
fetch_and_store_ohlcv(s, fetch, instrument, timeframe, start_dt, end_dt, outcome) ==
    IF outcome = "raises"
    THEN [session_state |-> s, raised |-> "ccxt.ExchangeError"]
    ELSE [session_state |->
              [s EXCEPT !["candles"] = StoredField(fetch, OHLCV_fetch(start_dt, end_dt)),
                        !["instrument"] = StoredField(fetch, instrument),
                        !["start_dt"] = StoredField(fetch, start_dt),
                        !["end_dt"] = StoredField(fetch, end_dt),
                        !["timeframe"] = StoredField(fetch, timeframe)],
          raised |-> "none"]

(* the handler of the fetch button of the Bybit page *)
bybit_fetch_and_store(s, fetch, instrument, timeframe, start_dt, end_dt, outcome) ==
    IF outcome = "raises"
    THEN [session_state |-> s, raised |-> "ccxt.ExchangeError"]
    ELSE [session_state |->
              [s EXCEPT !["candles"] = StoredField(fetch, OHLCV_fetch(start_dt, end_dt)),
                        !["instrument"] = StoredField(fetch, instrument),
                        !["start_dt"] = StoredField(fetch, start_dt),
                        !["end_dt"] = StoredField(fetch, end_dt),
                        !["timeframe"] = StoredField(fetch, timeframe)],
          raised |-> "none"]

(* whether the run draws the download button: the Bybit page inside              *)
(* `if candles is not None and instrument is not None`, the shared expander     *)
(* under `if st.session_state.candles is not None`                               *)
DownloadDrawn(exchange, s) ==
    IF exchange = "bybit"
    THEN ~s["candles"].none /\ ~s["instrument"].none
    ELSE ~s["candles"].none

(* the handler of the download button: OHLCV.to_parquet(symbol=                  *)
(* st.session_state.instrument.symbol, timeframe, since, end, candles)           *)
render_download_button(s) ==
    IF s["instrument"].none
    THEN [raised |-> "AttributeError: 'NoneType' object has no attribute 'symbol'",
          to_parquet |-> <<>>]
    ELSE [raised |-> "none",
          to_parquet |-> <<[symbol |-> s["instrument"].value,
                            timeframe |-> s["timeframe"],
                            since |-> s["start_dt"],
                            end |-> s["end_dt"],
                            candles |-> s["candles"]]>>]

----------------------------------------------------------------------------

(* State machine: one action per call.  The module-level functions and the     *)
(* constructor are called from the start state; the methods are called on the  *)
(* instance the constructor returned.                                          *)

NoArg == 0 - 1

NoArgs ==
    [fast_window |-> NoArg, slow_window |-> NoArg, fast_range |-> <<>>,
     slow_range |-> <<>>, initial_cash |-> NoArg, fees |-> NoArg, optimize_metric |-> ""]

Configs == {<<MinInitialCash, 0>>, <<DefaultInitialCash, DefaultFees>>}

Init ==
    /\ fn = "start"
    /\ args = NoArgs
    /\ self = {}
    /\ raised = "none"
    /\ logged = <<>>
    /\ st_error = <<>>
    /\ close_prices = <<>>
    /\ fast_ma = <<>>
    /\ slow_ma = <<>>
    /\ entries = <<>>
    /\ exits = <<>>
    /\ entries_df = <<>>
    /\ exits_df = <<>>
    /\ computed = {}
    /\ portfolio = NoPortfolio
    /\ param_labels = <<>>
    /\ results_df = <<>>
    /\ st_metrics = <<>>
    /\ results_df_sorted = <<>>
    /\ st_success = <<>>
    /\ download = <<>>
    /\ st_dataframe = <<>>
    /\ detailed = <<>>
    /\ InitPage

(* strategy = GoldenCrossStrategy(fast_window, slow_window, initial_cash, fees) *)
Construct(fast_window, slow_window, initial_cash, fees) ==
    LET r == StrategyInit(fast_window, slow_window, initial_cash, fees)
    IN  /\ fn = "start"
        /\ fn' = "__init__"
        /\ args' = [NoArgs EXCEPT !.fast_window = fast_window, !.slow_window = slow_window,
                                  !.initial_cash = initial_cash, !.fees = fees]
        /\ self' = r.self
        /\ raised' = r.raised
        /\ logged' = <<>>
        /\ st_error' = <<>>
        /\ close_prices' = <<>>
        /\ fast_ma' = <<>>
        /\ slow_ma' = <<>>
        /\ entries' = <<>>
        /\ exits' = <<>>
        /\ entries_df' = <<>>
        /\ exits_df' = <<>>
        /\ computed' = {}
        /\ portfolio' = NoPortfolio
        /\ param_labels' = <<>>
        /\ results_df' = <<>>
        /\ st_metrics' = <<>>
        /\ results_df_sorted' = <<>>
        /\ st_success' = <<>>
        /\ download' = <<>>
        /\ st_dataframe' = <<>>
        /\ detailed' = <<>>
        /\ UNCHANGED pageVars

(* strategy.calculate_indicators(close_prices) *)
CalculateIndicators(close) ==
    /\ fn = "__init__"
    /\ self # {}
    /\ IF TalibFails(Attr(self, "fast_window")) \/ TalibFails(Attr(self, "slow_window"))
       THEN /\ raised' = "Exception: TA_BAD_PARAM"
            /\ fast_ma' = <<>>
            /\ slow_ma' = <<>>
            /\ computed' = {}
       ELSE /\ raised' = "none"
            /\ \E ma \in {calculate_indicators(self, close)} :
                   /\ fast_ma' = ma.fast_ma
                   /\ slow_ma' = ma.slow_ma
            /\ computed' = {<<Attr(self, "fast_window"), Attr(self, "slow_window")>>}
    /\ fn' = "calculate_indicators"
    /\ args' = NoArgs
    /\ close_prices' = close
    /\ logged' = <<>>
    /\ st_error' = <<>>
    /\ entries' = <<>>
    /\ exits' = <<>>
    /\ entries_df' = <<>>
    /\ exits_df' = <<>>
    /\ portfolio' = NoPortfolio
    /\ param_labels' = <<>>
    /\ results_df' = <<>>
    /\ st_metrics' = <<>>
    /\ results_df_sorted' = <<>>
    /\ st_success' = <<>>
    /\ download' = <<>>
    /\ st_dataframe' = <<>>
    /\ detailed' = <<>>
    /\ UNCHANGED self
    /\ UNCHANGED pageVars

(* strategy.generate_signals(fast_ma, slow_ma) *)
GenerateSignals ==
    /\ fn \in {"calculate_indicators", "series"}
    /\ self # {}
    /\ raised = "none"
    /\ LET sig == generate_signals(fast_ma, slow_ma)
       IN  /\ entries' = sig.entries
           /\ exits' = sig.exits
           /\ entries_df' = <<>>
           /\ exits_df' = <<>>
    /\ fn' = "generate_signals"
    /\ raised' = "none"
    /\ UNCHANGED <<args, self, logged, st_error, close_prices, fast_ma, slow_ma,
                   computed, portfolio, param_labels, results_df,
                   st_metrics, results_df_sorted, st_success, download,
                   st_dataframe, detailed>>
    /\ UNCHANGED pageVars

(* strategy.run_backtest(df) *)
RunBacktest(close) ==
    /\ fn = "__init__"
    /\ self # {}
    /\ \E r \in {run_backtest(self, close)} :
           /\ raised' = r.raised
           /\ logged' = r.logged
           /\ computed' = r.computed
           /\ portfolio' = r.portfolio
           /\ fast_ma' = r.fast_ma
           /\ slow_ma' = r.slow_ma
           /\ entries' = r.entries
           /\ exits' = r.exits
           /\ entries_df' = <<>>
           /\ exits_df' = <<>>
    /\ fn' = "run_backtest"
    /\ args' = NoArgs
    /\ close_prices' = close
    /\ st_error' = <<>>
    /\ param_labels' = <<>>
    /\ results_df' = <<>>
    /\ st_metrics' = <<>>
    /\ results_df_sorted' = <<>>
    /\ st_success' = <<>>
    /\ download' = <<>>
    /\ st_dataframe' = <<>>
    /\ detailed' = <<>>
    /\ UNCHANGED self
    /\ UNCHANGED pageVars

(* optimize_golden_cross(df, fast_range, slow_range, initial_cash, fees) *)
OptimizeGoldenCross(close, fast_range, slow_range, initial_cash, fees) ==
    /\ fn = "start"
    /\ \E r \in {optimize_golden_cross(close, fast_range, slow_range, initial_cash, fees)} :
           /\ raised' = r.raised
           /\ logged' = r.logged
           /\ computed' = r.computed
           /\ portfolio' = r.portfolio
           /\ param_labels' = r.param_labels
           /\ entries_df' = r.entries_df
           /\ exits_df' = r.exits_df
           /\ results_df' = r.results_df
           /\ st_metrics' = <<>>
           /\ results_df_sorted' = <<>>
           /\ st_success' = <<>>
           /\ download' = <<>>
           /\ st_dataframe' = <<>>
           /\ detailed' = <<>>
    /\ fn' = "optimize_golden_cross"
    /\ args' = [NoArgs EXCEPT !.fast_range = fast_range, !.slow_range = slow_range,
                              !.initial_cash = initial_cash, !.fees = fees]
    /\ close_prices' = close
    /\ self' = {}
    /\ st_error' = <<>>
    /\ fast_ma' = <<>>
    /\ slow_ma' = <<>>
    /\ entries' = <<>>
    /\ exits' = <<>>
    /\ UNCHANGED pageVars

(* run_golden_cross_backtest(df, fast_window, slow_window, initial_cash, fees) *)
PageRunBacktestCall(close, fast_window, slow_window, initial_cash, fees) ==
    /\ \E r \in {run_golden_cross_backtest(close, fast_window, slow_window,
                                          initial_cash, fees)} :
           /\ st_error' = r.st_error
           /\ logged' = r.logged
           /\ st_metrics' = r.st_metrics
           /\ computed' = r.computed
           /\ portfolio' = r.portfolio
           /\ fast_ma' = r.fast_ma
           /\ slow_ma' = r.slow_ma
           /\ entries' = r.entries
           /\ exits' = r.exits
           /\ entries_df' = <<>>
           /\ exits_df' = <<>>
    /\ fn' = "run_golden_cross_backtest"
    /\ args' = [NoArgs EXCEPT !.fast_window = fast_window, !.slow_window = slow_window,
                              !.initial_cash = initial_cash, !.fees = fees]
    /\ close_prices' = close
    /\ self' = {}
    /\ raised' = "none"
    /\ param_labels' = <<>>
    /\ results_df' = <<>>
    /\ results_df_sorted' = <<>>
    /\ st_success' = <<>>
    /\ download' = <<>>
    /\ st_dataframe' = <<>>
    /\ detailed' = <<>>

(* the call on its own, from the start state *)
PageRunBacktest(close, fast_window, slow_window, initial_cash, fees) ==
    /\ fn = "start"
    /\ PageRunBacktestCall(close, fast_window, slow_window, initial_cash, fees)
    /\ UNCHANGED pageVars

(* run_golden_cross_optimization(df, fast_range, slow_range, initial_cash, fees,   *)
(*                               optimize_metric)                                 *)
PageRunOptimizationCall(close, fast_range, slow_range, initial_cash, fees, optimize_metric) ==
    /\ \E r \in {run_golden_cross_optimization(close, fast_range, slow_range,
                                              initial_cash, fees)} :
           /\ portfolio' = r.portfolio
           /\ param_labels' = r.param_labels
           /\ entries_df' = r.entries_df
           /\ exits_df' = r.exits_df
           /\ IF r.results_df = <<>>
              THEN /\ results_df' = r.results_df
                   /\ st_error' = r.st_error
                   /\ logged' = r.logged
                   /\ computed' = r.computed
                   /\ st_metrics' = <<>>
                   /\ results_df_sorted' = <<>>
                   /\ st_dataframe' = <<>>
                   /\ st_success' = <<>>
                   /\ detailed' = <<>>
                   /\ download' = <<>>
              ELSE \E sorted \in sort_values(r.results_df, metric_column_map[optimize_metric]) :
                   \E out \in {PageShowRanking(r, sorted, close, initial_cash, fees,
                                               optimize_metric)} :
                       /\ results_df' = SortedFrom(r.results_df, sorted)
                       /\ st_error' = out.st_error
                       /\ logged' = out.logged
                       /\ computed' = out.computed
                       /\ st_metrics' = out.st_metrics
                       /\ results_df_sorted' = out.results_df_sorted
                       /\ st_dataframe' = out.st_dataframe
                       /\ st_success' = out.st_success
                       /\ detailed' = out.detailed
                       /\ download' = out.download
    /\ fn' = "run_golden_cross_optimization"
    /\ args' = [NoArgs EXCEPT !.fast_range = fast_range, !.slow_range = slow_range,
                              !.initial_cash = initial_cash, !.fees = fees,
                              !.optimize_metric = optimize_metric]
    /\ close_prices' = close
    /\ self' = {}
    /\ raised' = "none"
    /\ fast_ma' = <<>>
    /\ slow_ma' = <<>>
    /\ entries' = <<>>
    /\ exits' = <<>>

(* the call on its own, from the start state *)
PageRunOptimization(close, fast_range, slow_range, initial_cash, fees, optimize_metric) ==
    /\ fn = "start"
    /\ PageRunOptimizationCall(close, fast_range, slow_range, initial_cash, fees,
                               optimize_metric)
    /\ UNCHANGED pageVars

Next ==
    \/ /\ fn = "start"
       /\ \E f \in Windows, s \in Windows, c \in CashSet, fe \in FeesSet :
              Construct(f, s, c, fe)
    \/ /\ fn = "__init__"
       /\ \E close \in CloseSeqs : CalculateIndicators(close)
    \/ GenerateSignals
    \/ /\ fn = "__init__"
       /\ \E close \in CloseSeqs : RunBacktest(close)
    \/ /\ fn = "start"
       /\ \E close \in GridCloseSeqs, fr \in FastRanges, sr \in SlowRanges, cf \in Configs :
              OptimizeGoldenCross(close, fr, sr, cf[1], cf[2])
    \/ /\ fn = "start"
       /\ \E close \in CloseSeqs, f \in Windows, s \in Windows, cf \in Configs :
              PageRunBacktest(close, f, s, cf[1], cf[2])
    \/ /\ fn = "start"
       /\ \E close \in GridCloseSeqs, fr \in FastRanges, sr \in SlowRanges :
              PageRunOptimization(close, fr, sr, DefaultInitialCash, DefaultFees,
                                  DefaultMetric)

Spec == Init /\ [][Next]_vars

----------------------------------------------------------------------------
(* The strategy's indicator and signal steps applied to strictly rising prices *)

NextRising ==
    \/ /\ fn = "start"
       /\ \E f \in Windows, s \in Windows, cf \in Configs : Construct(f, s, cf[1], cf[2])
    \/ /\ fn = "__init__"
       /\ \E close \in RisingSeqs : CalculateIndicators(close)
    \/ GenerateSignals
    \/ /\ fn = "__init__"
       /\ \E close \in RisingSeqs : RunBacktest(close)

SpecRising == Init /\ [][NextRising]_vars

----------------------------------------------------------------------------
(* The optimisation page run for each metric, on ranges as the form builds them  *)
(* with range(min, max + 1, step): non-empty and strictly increasing             *)

FormRanges(S) ==
    {l \in ListsUpTo(S, MaxRange) :
        l # <<>> /\ \A i \in 1..(Len(l) - 1) : l[i] < l[i + 1]}

NextRanking ==
    /\ fn = "start"
    /\ \E close \in GridCloseSeqs, fr \in FormRanges(FastWindows),
          sr \in FormRanges(SlowWindows), cf \in Configs, metric \in Metrics :
           PageRunOptimization(close, fr, sr, cf[1], cf[2], metric)

SpecRanking == Init /\ [][NextRanking]_vars

----------------------------------------------------------------------------
(* generate_signals applied to arbitrary aligned series *)

InitSignals ==
    /\ fn = "series"
    /\ args = NoArgs
    /\ self = AttrsOf(1, SlowMinValue, DefaultInitialCash, DefaultFees)
    /\ raised = "none"
    /\ logged = <<>>
    /\ st_error = <<>>
    /\ close_prices = <<>>
    /\ fast_ma \in MASeqs
    /\ slow_ma \in MASeqs
    /\ entries = <<>>
    /\ exits = <<>>
    /\ entries_df = <<>>
    /\ exits_df = <<>>
    /\ computed = {}
    /\ portfolio = NoPortfolio
    /\ param_labels = <<>>
    /\ results_df = <<>>
    /\ st_metrics = <<>>
    /\ results_df_sorted = <<>>
    /\ st_success = <<>>
    /\ download = <<>>
    /\ st_dataframe = <<>>
    /\ detailed = <<>>
    /\ InitPage

NextSignals == GenerateSignals

SpecSignals == InitSignals /\ [][NextSignals]_vars

----------------------------------------------------------------------------
(* The file upload on its own *)

(* df = upload_ohlcv_parquet(accept_multiple_files) *)
UploadOhlcvParquet(files, multiple) ==
    /\ fn = "start"
    /\ \E out \in upload_ohlcv_parquet(files, multiple) :
           /\ combined_df' = out.df
           /\ st_error' = out.st_error
           /\ logged' = out.logged
           /\ st_warning' = out.st_warning
    /\ fn' = "upload_ohlcv_parquet"
    /\ uploaded_files' = files
    /\ accept_multiple_files' = multiple
    /\ raised' = "none"
    /\ UNCHANGED <<backtestVars, formVars, sessionVars>>

NextUpload ==
    \/ /\ fn = "start"
       /\ \E files \in Uploads : UploadOhlcvParquet(files, TRUE)
    \/ /\ fn = "start"
       /\ \E files \in SingleUploads : UploadOhlcvParquet(files, FALSE)

SpecUpload == Init /\ [][NextUpload]_vars

----------------------------------------------------------------------------
(* The Golden Cross page under reruns and clicks *)

(* a rerun that makes no call shows no result of an earlier call *)
NothingRun ==
    /\ args' = NoArgs
    /\ self' = {}
    /\ raised' = "none"
    /\ logged' = <<>>
    /\ close_prices' = <<>>
    /\ fast_ma' = <<>>
    /\ slow_ma' = <<>>
    /\ entries' = <<>>
    /\ exits' = <<>>
    /\ entries_df' = <<>>
    /\ exits_df' = <<>>
    /\ computed' = {}
    /\ portfolio' = NoPortfolio
    /\ param_labels' = <<>>
    /\ results_df' = <<>>
    /\ st_metrics' = <<>>
    /\ results_df_sorted' = <<>>
    /\ st_success' = <<>>
    /\ download' = <<>>
    /\ st_dataframe' = <<>>
    /\ detailed' = <<>>

(* goldencross_page without uploaded data: if df is None: st.info(...); return *)
RerunWithoutData ==
    /\ fn' = "goldencross_page"
    /\ df' = <<>>
    /\ mode' = "none"
    /\ widgets' = NoWidgets
    /\ st_info' = <<[text |-> "Please upload OHLCV parquet file(s)", n |-> 0]>>
    /\ st_error' = <<>>
    /\ st_warning' = <<>>
    /\ button' = "none"
    /\ NothingRun
    /\ UNCHANGED <<uploaded_files, accept_multiple_files, combined_df, sessionVars>>

(* goldencross_page with data, the mode and the widget values of the rerun, no   *)
(* button clicked                                                                *)
RerunPage(data, m, w) ==
    /\ fn' = "goldencross_page"
    /\ df' = data
    /\ mode' = m
    /\ widgets' = w
    /\ \E ui \in {IF m = "Single Backtest" THEN show_single_backtest_ui(w)
                                             ELSE show_optimization_ui(w)} :
           /\ st_error' = ui.st_error
           /\ st_warning' = ui.st_warning
           /\ st_info' = ui.st_info
           /\ button' = ui.button
    /\ NothingRun
    /\ UNCHANGED <<uploaded_files, accept_multiple_files, combined_df, sessionVars>>

(* a click on "Run Backtest": the rerun draws the same widgets and calls          *)
(* run_golden_cross_backtest(df, fast_window, slow_window, initial_cash,          *)
(*                           fees / 100)                                          *)
ClickRunBacktest ==
    /\ button = "Run Backtest"
    /\ PageRunBacktestCall(df, widgets.fast_window, widgets.slow_window,
                           widgets.initial_cash,
                           FeeUnits(PercentToDecimal(widgets.fees)))
    /\ UNCHANGED pageVars

(* a click on "Run Optimization": the rerun draws the same widgets and calls      *)
(* run_golden_cross_optimization(df, list(fast_range), list(slow_range),          *)
(*                               initial_cash, fees / 100, optimize_metric)       *)
ClickRunOptimization ==
    /\ button = "Run Optimization"
    /\ PageRunOptimizationCall(df, form_fast_range(widgets), form_slow_range(widgets),
                               widgets.initial_cash,
                               FeeUnits(PercentToDecimal(widgets.fees)),
                               widgets.optimize_metric)
    /\ UNCHANGED pageVars

NextPage ==
    \/ RerunWithoutData
    \/ \E data \in PageCloseSeqs, w \in SingleWidgets :
           RerunPage(data, "Single Backtest", w)
    \/ \E data \in PageCloseSeqs, w \in OptimizationWidgets :
           RerunPage(data, "Parameter Optimization", w)
    \/ ClickRunBacktest
    \/ ClickRunOptimization

SpecPage == Init /\ [][NextPage]_vars

----------------------------------------------------------------------------
(* The exchange pages: every interaction reruns the page of the chosen exchange; *)
(* the rerun caused by a click on a button also runs the handler behind it.      *)

(* a run of the page with no button clicked *)
RenderExchangePage(exchange) ==
    /\ fn' = PageOf(exchange)
    /\ raised' = "none"
    /\ session_state' = initialize_candles_session_state(session_state)
    /\ download_button' = DownloadDrawn(exchange, session_state')
    /\ to_parquet' = <<>>
    /\ UNCHANGED <<fetches, logged, st_error, backtestVars, uploadVars, formVars>>

(* a click on "Fetch OHLCV data": the run fetches with the values of the inputs, *)
(* stores the result and draws the rest of the expander; an exception of the     *)
(* fetch ends the run                                                            *)
ClickFetch(exchange, instrument, timeframe, start_dt, end_dt, outcome) ==
    /\ fn = PageOf(exchange)
    /\ fetches < MaxFetches
    /\ fetches' = fetches + 1
    /\ fn' = PageOf(exchange)
    /\ \E r \in {IF exchange = "bybit"
                 THEN bybit_fetch_and_store(
                          initialize_candles_session_state(session_state), fetches + 1,
                          instrument, timeframe, start_dt, end_dt, outcome)
                 ELSE fetch_and_store_ohlcv(
                          initialize_candles_session_state(session_state), fetches + 1,
                          instrument, timeframe, start_dt, end_dt, outcome)} :
           /\ session_state' = r.session_state
           /\ raised' = r.raised
           /\ download_button' = (r.raised = "none" /\ DownloadDrawn(exchange, r.session_state))
    /\ to_parquet' = <<>>
    /\ UNCHANGED <<logged, st_error, backtestVars, uploadVars, formVars>>

(* a click on the download button the last run drew *)
ClickDownload(exchange) ==
    /\ fn = PageOf(exchange)
    /\ download_button
    /\ fn' = PageOf(exchange)
    /\ session_state' = initialize_candles_session_state(session_state)
    /\ \E r \in {render_download_button(session_state')} :
           /\ raised' = r.raised
           /\ to_parquet' = r.to_parquet
           /\ download_button' = (r.raised = "none")
    /\ UNCHANGED <<fetches, logged, st_error, backtestVars, uploadVars, formVars>>

NextSession ==
    \/ \E exchange \in Exchanges : RenderExchangePage(exchange)
    \/ \E exchange \in Exchanges :
           /\ fn = PageOf(exchange)
           /\ fetches < MaxFetches
           /\ \E instrument \in Instruments(exchange), timeframe \in Timeframes,
                 start_dt \in Timestamps, end_dt \in Timestamps, outcome \in FetchOutcomes :
                  ClickFetch(exchange, instrument, timeframe, start_dt, end_dt, outcome)
    \/ \E exchange \in Exchanges : ClickDownload(exchange)

SpecSession == Init /\ [][NextSession]_vars

----------------------------------------------------------------------------

(* Properties *)

ConfigurationError == "ValueError: fast window must be smaller"

NoCombinationsError == "ValueError: No valid parameter combinations found"

(* C1: constructing a GoldenCrossStrategy with fast_window >= slow_window raises  *)
(* the configuration error with no attribute set and nothing computed; with       *)
(* fast_window < slow_window it succeeds and stores the windows, cash and fees    *)
(* exactly as given.                                                              *)
C1_ConstructionChecksWindows ==
    fn = "__init__" =>
        /\ computed = {}
        /\ portfolio = NoPortfolio
        /\ IF args.fast_window >= args.slow_window
           THEN raised = ConfigurationError /\ self = {}
           ELSE /\ raised = "none"
                /\ self = {<<"fast_window", args.fast_window>>,
                           <<"slow_window", args.slow_window>>,
                           <<"initial_cash", args.initial_cash>>,
                           <<"fees", args.fees>>}

C1_Witness ==
    /\ fn = "__init__"
    /\ args.fast_window = args.slow_window
    /\ args.fast_window > 0
    /\ raised = ConfigurationError
    /\ self = {}

(* C2: no entry point computes a moving average or runs a simulation for a pair   *)
(* of windows with fast >= slow, and the single-run entry point reports a         *)
(* configuration error for such a pair.                                           *)
C2_NoComputationForInvalidPair ==
    /\ \A p \in computed : p[1] < p[2]
    /\ (fn = "run_golden_cross_backtest" /\ args.fast_window >= args.slow_window)
           => (portfolio = NoPortfolio /\ st_error # <<>>)

OptimizerReturnedTable ==
    /\ fn \in {"optimize_golden_cross", "run_golden_cross_optimization"}
    /\ portfolio # NoPortfolio

RangePositions ==
    (1..Len(args.fast_range)) \X (1..Len(args.slow_range))

Survives(pos) == args.fast_range[pos[1]] < args.slow_range[pos[2]]

RowsOf(f, s) ==
    {k \in 1..Len(results_df) : results_df[k].FastMA = f /\ results_df[k].SlowMA = s}

(* C3: the result table has one row per position pair of fast_range x slow_range  *)
(* whose windows satisfy f < s, and no row for a pair with f >= s.                *)
C3_OneRowPerSurvivingPair ==
    OptimizerReturnedTable =>
        /\ Len(results_df) = Cardinality({pos \in RangePositions : Survives(pos)})
        /\ \A f \in Windows, s \in Windows :
              Cardinality(RowsOf(f, s)) =
                  IF f < s
                  THEN Cardinality({pos \in RangePositions :
                                       /\ args.fast_range[pos[1]] = f
                                       /\ args.slow_range[pos[2]] = s})
                  ELSE 0

(* fast_range = [a, b], slow_range = [b, c] with a < b < c: the three rows        *)
(* (a, b), (a, c), (b, c); (b, b) is excluded                                     *)
C3_Witness ==
    /\ fn = "optimize_golden_cross"
    /\ args.fast_range = <<MaxWindow - 1, MaxWindow>>
    /\ args.slow_range = <<MaxWindow, SlowMinValue>>
    /\ [k \in 1..Len(results_df) |-> <<results_df[k].FastMA, results_df[k].SlowMA>>]
           = <<<<MaxWindow - 1, MaxWindow>>, <<MaxWindow - 1, SlowMinValue>>,
               <<MaxWindow, SlowMinValue>>>>

(* position pairs numbered row-major: fast_range outer, slow_range inner *)
FlatFast(p) == args.fast_range[(p \div Len(args.slow_range)) + 1]

FlatSlow(p) == args.slow_range[(p % Len(args.slow_range)) + 1]

FlatSurvivors ==
    {p \in 0..(Len(args.fast_range) * Len(args.slow_range) - 1) : FlatFast(p) < FlatSlow(p)}

(* C4: row i and label i of the unsorted table carry the windows of the i-th      *)
(* surviving pair in nested-loop order, fast_range outer and slow_range inner.    *)
C4_RowsInEnumerationOrder ==
    OptimizerReturnedTable =>
        /\ Len(param_labels) = Len(results_df)
        /\ \A k \in 1..Len(results_df) :
              \E p \in FlatSurvivors :
                  /\ Cardinality({q \in FlatSurvivors : q < p}) = k - 1
                  /\ results_df[k].FastMA = FlatFast(p)
                  /\ results_df[k].SlowMA = FlatSlow(p)
                  /\ param_labels[k] = FormatLabel(FlatFast(p), FlatSlow(p))

C4_Witness ==
    /\ fn = "optimize_golden_cross"
    /\ args.fast_range = <<MaxWindow, 1>>
    /\ args.slow_range = <<SlowMinValue, MaxWindow>>
    /\ MaxWindow > 1
    /\ Len(results_df) = 3
    /\ results_df[1].FastMA = MaxWindow /\ results_df[1].SlowMA = SlowMinValue
    /\ results_df[2].FastMA = 1 /\ results_df[2].SlowMA = SlowMinValue
    /\ results_df[3].FastMA = 1 /\ results_df[3].SlowMA = MaxWindow

SomePairSurvives == \E pos \in RangePositions : Survives(pos)

(* C5: the optimiser reports "no valid parameter combinations" exactly when no    *)
(* pair survives the f < s filter (empty ranges included); then nothing is        *)
(* computed or simulated and no table is returned.                                *)
C5_ErrorIffNoPairSurvives ==
    /\ fn = "optimize_golden_cross" =>
          /\ (raised = NoCombinationsError) <=> ~SomePairSurvives
          /\ ~SomePairSurvives =>
                 (computed = {} /\ portfolio = NoPortfolio /\ results_df = <<>>)
    /\ fn = "run_golden_cross_optimization" =>
          /\ (st_error = <<"No valid parameter combinations found">>) <=> ~SomePairSurvives
          /\ ~SomePairSurvives =>
                 (computed = {} /\ portfolio = NoPortfolio /\ results_df = <<>>)

C5_Witness ==
    /\ fn = "optimize_golden_cross"
    /\ args.fast_range # <<>>
    /\ args.slow_range # <<>>
    /\ raised = NoCombinationsError
    /\ results_df = <<>>

(* comparisons of two moving-average values, false when either is undefined *)
Defined(i) == ~fast_ma[i].nan /\ ~slow_ma[i].nan

FastAbove(i) ==
    Defined(i) /\ fast_ma[i].num * slow_ma[i].den > slow_ma[i].num * fast_ma[i].den

FastBelow(i) ==
    Defined(i) /\ fast_ma[i].num * slow_ma[i].den < slow_ma[i].num * fast_ma[i].den

(* C6: entries has the length of the inputs and, at every position i after the    *)
(* first, entries[i] = (fast[i] > slow[i]) and not (fast[i-1] > slow[i-1]).       *)
C6_EntriesAreUpwardCrossings ==
    fn = "generate_signals" =>
        /\ Len(entries) = Len(fast_ma)
        /\ \A i \in 2..Len(fast_ma) : entries[i] = (FastAbove(i) /\ ~FastAbove(i - 1))

C6_Witness ==
    /\ fn = "generate_signals"
    /\ \E i \in 2..Len(fast_ma) : entries[i] /\ Defined(i - 1)
    /\ \E i \in 2..Len(fast_ma) : ~entries[i] /\ FastAbove(i)

(* C7: exits has the length of the inputs and, at every position i after the      *)
(* first, exits[i] = (fast[i] < slow[i]) and not (fast[i-1] < slow[i-1]).         *)
C7_ExitsAreDownwardCrossings ==
    fn = "generate_signals" =>
        /\ Len(exits) = Len(fast_ma)
        /\ \A i \in 2..Len(fast_ma) : exits[i] = (FastBelow(i) /\ ~FastBelow(i - 1))

C7_Witness ==
    /\ fn = "generate_signals"
    /\ \E i \in 2..Len(fast_ma) : exits[i] /\ Defined(i - 1)
    /\ \E i \in 2..Len(fast_ma) : ~exits[i] /\ FastBelow(i)

(* C8: the first position never carries a signal: entries[0] and exits[0] are     *)
(* false for every pair of series, also when both first values are defined.       *)
C8_NoSignalOnFirstBar ==
    (fn = "generate_signals" /\ Len(fast_ma) > 0) => (~entries[1] /\ ~exits[1])

(* C9: a position where either average is undefined carries no signal, and an     *)
(* undefined previous position counts as a false prior comparison, so the first   *)
(* position where both averages are defined and differ fires its signal.          *)
C9_UndefinedNeverSignals ==
    fn = "generate_signals" =>
        /\ \A i \in 1..Len(fast_ma) : ~Defined(i) => (~entries[i] /\ ~exits[i])
        /\ \A i \in 2..Len(fast_ma) :
              ~Defined(i - 1) => (entries[i] = FastAbove(i) /\ exits[i] = FastBelow(i))
        /\ \A i \in 1..Len(fast_ma) :
              (Defined(i) /\ \A j \in 1..(i - 1) : ~Defined(j))
                  => (entries[i] = FastAbove(i) /\ exits[i] = FastBelow(i))

C9_Witness ==
    /\ fn = "generate_signals"
    /\ Len(fast_ma) >= 3
    /\ ~Defined(1)
    /\ Defined(2) /\ entries[2]
    /\ fast_ma[3].nan /\ ~slow_ma[3].nan /\ ~entries[3] /\ ~exits[3]

(* C10: no position is both an entry and an exit. *)
C10_NeverEntryAndExit ==
    fn = "generate_signals" =>
        \A i \in 1..Len(entries) : ~(entries[i] /\ exits[i])

C10_Witness ==
    /\ fn = "generate_signals"
    /\ \E i \in 1..Len(entries) : entries[i]
    /\ \E i \in 1..Len(exits) : exits[i]

(* sum of the w closes ending at position i *)
RECURSIVE ClosesEndingAt(_, _)
ClosesEndingAt(i, w) ==
    IF w = 0 THEN 0 ELSE close_prices[i] + ClosesEndingAt(i - 1, w - 1)

IsWindowMean(ma, w) ==
    /\ Len(ma) = Len(close_prices)
    /\ \A i \in 1..Len(close_prices) :
          IF i < w THEN ma[i].nan
          ELSE ~ma[i].nan /\ ma[i].num * w = ClosesEndingAt(i, w) * ma[i].den

(* C11: for positive windows calculate_indicators does not fail and returns two   *)
(* series of the length of the prices; position i holds the arithmetic mean of    *)
(* the w closes ending at i and is undefined while fewer than w closes are        *)
(* available, so a series shorter than w gives an all-undefined result.           *)
C11_MovingAverageIsWindowMean ==
    (/\ fn = "calculate_indicators"
     /\ Attr(self, "fast_window") >= 1
     /\ Attr(self, "slow_window") >= 1)
        => /\ raised = "none"
           /\ IsWindowMean(fast_ma, Attr(self, "fast_window"))
           /\ IsWindowMean(slow_ma, Attr(self, "slow_window"))

C11_Witness ==
    /\ fn = "calculate_indicators"
    /\ raised = "none"
    /\ Attr(self, "fast_window") = MaxWindow
    /\ Attr(self, "slow_window") > Len(close_prices)
    /\ fast_ma[MaxWindow - 1].nan
    /\ ~fast_ma[MaxWindow].nan
    /\ fast_ma[MaxWindow].num # MaxWindow * fast_ma[MaxWindow].den
    /\ \A i \in 1..Len(close_prices) : slow_ma[i].nan

StrictlyRising(s) == \A i \in 1..(Len(s) - 1) : s[i] < s[i + 1]

SignalsOfRisingSeries ==
    /\ fn = "generate_signals"
    /\ close_prices # <<>>
    /\ StrictlyRising(close_prices)

EntryBars == {i \in 1..Len(entries) : entries[i]}

ExitBars == {i \in 1..Len(exits) : exits[i]}

(* C12 as stated: for every strictly rising price series and every               *)
(* fast_window < slow_window exactly one entry fires and no exit fires.           *)
C12_RisingSeriesOneEntry ==
    SignalsOfRisingSeries => (Cardinality(EntryBars) = 1 /\ ExitBars = {})

(* C12 amended: for a strictly rising price series with at least slow_window      *)
(* closes and 1 <= fast_window < slow_window exactly one entry fires, at the      *)
(* first bar where both averages are defined (position slow_window - 1), and no   *)
(* exit fires; a rising series shorter than slow_window fires no signal at all.   *)
C12_RisingSeriesOneEntryWhenLongEnough ==
    SignalsOfRisingSeries =>
        /\ ExitBars = {}
        /\ IF Len(close_prices) >= Attr(self, "slow_window")
           THEN /\ EntryBars = {Attr(self, "slow_window")}
                /\ \A j \in 1..(Attr(self, "slow_window") - 1) : ~Defined(j)
                /\ FastAbove(Attr(self, "slow_window"))
           ELSE EntryBars = {}

C12_Witness ==
    /\ SignalsOfRisingSeries
    /\ Attr(self, "slow_window") < Len(close_prices)
    /\ EntryBars = {Attr(self, "slow_window")}
    /\ FastAbove(Len(close_prices))

SingleRunSimulated ==
    /\ fn \in {"run_backtest", "run_golden_cross_backtest"}
    /\ portfolio # NoPortfolio

CashAfter(bar) == IF bar = 0 THEN One ELSE portfolio.columns[1].cash[bar]

SharesAfter(bar) == IF bar = 0 THEN Zero ELSE portfolio.columns[1].shares[bar]

Flat(bar) == SharesAfter(bar).num = 0

(* C13: in a single run every bar ends with the portfolio holding only cash or    *)
(* only the asset, never a negative amount of either; an entry bar buys with all  *)
(* the cash if the portfolio is flat and is ignored while holding, an exit bar    *)
(* sells the whole position if holding and is ignored while flat, and a bar       *)
(* without a signal leaves the holdings alone.                                    *)
C13_LongOnlyAllInOrFlat ==
    SingleRunSimulated =>
        /\ Len(portfolio.columns[1].cash) = Len(close_prices)
        /\ \A bar \in 1..Len(close_prices) :
              /\ SharesAfter(bar).num >= 0
              /\ CashAfter(bar).num >= 0
              /\ SharesAfter(bar).num = 0 \/ CashAfter(bar).num = 0
              /\ IF entries[bar] /\ ~exits[bar] /\ Flat(bar - 1)
                 THEN /\ CashAfter(bar) = Zero
                      /\ RatMul(RatMul(SharesAfter(bar), Price(close_prices[bar])),
                                OnePlusFees(portfolio.fees)) = CashAfter(bar - 1)
                 ELSE IF exits[bar] /\ ~entries[bar] /\ ~Flat(bar - 1)
                 THEN /\ SharesAfter(bar) = Zero
                      /\ CashAfter(bar) =
                             RatMul(RatMul(SharesAfter(bar - 1), Price(close_prices[bar])),
                                    OneMinusFees(portfolio.fees))
                 ELSE /\ CashAfter(bar) = CashAfter(bar - 1)
                      /\ SharesAfter(bar) = SharesAfter(bar - 1)

(* a buy at bar 2, a sale at bar 3, with fees *)
C13_Witness ==
    /\ SingleRunSimulated
    /\ portfolio.fees > 0
    /\ Len(close_prices) >= 3
    /\ entries[2] /\ exits[3]
    /\ ~Flat(2) /\ CashAfter(2) = Zero
    /\ Flat(3) /\ CashAfter(3).num > 0

(* C14: wherever a win rate is reported it is exactly 0 when the trade count is   *)
(* 0, and never NaN: in every row of the optimisers' tables and in the metrics    *)
(* shown for a single run.                                                        *)
C14_WinRateZeroWithoutTrades ==
    /\ \A k \in 1..Len(results_df) :
          /\ ~results_df[k].WinRate.nan
          /\ results_df[k].NumTrades = 0 => results_df[k].WinRate = Fin(Zero)
    /\ \A k \in 1..Len(st_metrics) :
          /\ ~st_metrics[k].WinRate.nan
          /\ st_metrics[k].TotalTrades = 0 => st_metrics[k].WinRate = Fin(Zero)

RankingShown ==
    /\ fn = "run_golden_cross_optimization"
    /\ results_df_sorted # <<>>

SortColumn == metric_column_map[args.optimize_metric]

(* a >= b on floats: false when either side is NaN *)
AtLeast(a, b) ==
    /\ ~a.nan
    /\ ~b.nan
    /\ a.inf \/ (~b.inf /\ ~RatLess([num |-> a.num, den |-> a.den],
                                    [num |-> b.num, den |-> b.den]))

(* C15: for each metric the ranked view is in descending order of the metric's    *)
(* column, the row reported as best parameters is its first row, and the metric   *)
(* value of that row is >= the metric value of every other row of the table.      *)
C15_BestRowHasLargestMetric ==
    RankingShown =>
        /\ \A i \in 1..Len(results_df_sorted), j \in 1..Len(results_df_sorted) :
              i < j => AtLeast(results_df_sorted[i][SortColumn],
                               results_df_sorted[j][SortColumn])
        /\ Len(st_success) = 1
        /\ st_success[1].best_fast = results_df_sorted[1].FastMA
        /\ st_success[1].best_slow = results_df_sorted[1].SlowMA
        /\ st_success[1].value = results_df_sorted[1][SortColumn]
        /\ \A j \in 2..Len(results_df_sorted) :
              AtLeast(st_success[1].value, results_df_sorted[j][SortColumn])

(* position of the first occurrence of a row *)
PositionIn(rows, row) ==
    CHOOSE i \in 1..Len(rows) : rows[i] = row /\ \A j \in 1..(i - 1) : rows[j] # row

(* C16: two rows with equal values of the chosen metric keep their enumeration    *)
(* order in the ranked view, so the first enumerated of the tied largest rows is  *)
(* the one reported as best.                                                      *)
C16_TiesKeepEnumerationOrder ==
    RankingShown =>
        \A i \in 1..Len(results_df), j \in 1..Len(results_df) :
            (/\ i < j
             /\ results_df[i] # results_df[j]
             /\ ~results_df[i][SortColumn].nan
             /\ results_df[i][SortColumn] = results_df[j][SortColumn])
                => PositionIn(results_df_sorted, results_df[i])
                       < PositionIn(results_df_sorted, results_df[j])


OptimizerReturned == fn = "optimize_golden_cross" /\ raised = "none"

(* the independent single run of the pair of row k: a strategy object with the    *)
(* row's windows and the call's cash and fees, run on the same closes             *)
SingleRunOfRow(k) ==
    run_backtest(AttrsOf(results_df[k].FastMA, results_df[k].SlowMA,
                         args.initial_cash, args.fees), close_prices)

(* C17: every row of the optimiser's result equals an independent single run of   *)
(* its pair on the same closes, cash and fees: same entry and exit signals, same  *)
(* simulated column and same metric values, whatever other pairs are in the grid  *)
(* and wherever the pair stands in the enumeration.                               *)
C17_RowEqualsIndependentSingleRun ==
    OptimizerReturned =>
        \A k \in 1..Len(results_df) :
            \E single \in {SingleRunOfRow(k)} :
                /\ single.raised = "none"
                /\ portfolio.entries[k] = single.entries
                /\ portfolio.exits[k] = single.exits
                /\ portfolio.columns[k] = single.portfolio.columns[1]
                /\ results_df[k] =
                       ResultRows(single.portfolio,
                                  <<FormatLabel(results_df[k].FastMA,
                                                results_df[k].SlowMA)>>)[1]

(* a grid of several pairs in which a later row trades and the first does not *)
C17_Witness ==
    /\ OptimizerReturned
    /\ Len(results_df) > 1
    /\ results_df[1].NumTrades = 0
    /\ \E k \in 2..Len(results_df) :
           /\ results_df[k].NumTrades > 0
           /\ portfolio.columns[k] = SingleRunOfRow(k).portfolio.columns[1]


SurvivingPositions == {pos \in RangePositions : Survives(pos)}

(* the moving average of a surviving pair cannot be computed *)
SomeRowFails ==
    \E pos \in SurvivingPositions :
        \/ TalibFails(args.fast_range[pos[1]])
        \/ TalibFails(args.slow_range[pos[2]])

(* a table with one row for every surviving pair *)
CompleteTable(rows) ==
    /\ Len(rows) = Cardinality(SurvivingPositions)
    /\ \A pos \in SurvivingPositions :
           \E k \in 1..Len(rows) :
               /\ rows[k].FastMA = args.fast_range[pos[1]]
               /\ rows[k].SlowMA = args.slow_range[pos[2]]

(* C18: optimize_golden_cross either raises and returns nothing, or returns a     *)
(* table with one row for every surviving pair; when a row fails it raises.  The  *)
(* page displays and offers for download only rows of such a complete table, and  *)
(* nothing when a row fails.                                                      *)
C18_NoPartialTable ==
    /\ fn = "optimize_golden_cross" =>
           /\ raised # "none" => (results_df = <<>> /\ portfolio = NoPortfolio)
           /\ raised = "none" => CompleteTable(results_df)
           /\ SomeRowFails => raised # "none"
    /\ fn = "run_golden_cross_optimization" =>
           /\ st_dataframe # <<>> =>
                  /\ CompleteTable(results_df_sorted)
                  /\ st_dataframe[1] = head(results_df_sorted, TopRows)
           /\ download # <<>> =>
                  (CompleteTable(results_df_sorted) /\ download[1] = to_csv(results_df_sorted))
           /\ SomeRowFails =>
                  (st_dataframe = <<>> /\ download = <<>> /\ st_error # <<>>)

(* the second pair fails after the first pair has been computed *)
C18_Witness ==
    /\ fn = "optimize_golden_cross"
    /\ SomeRowFails
    /\ computed # {}
    /\ raised # "none"
    /\ results_df = <<>>


(* the call was given a configuration error: windows with fast >= slow, or ranges *)
(* of which no pair survives                                                      *)
ConfigurationErrorCase ==
    \/ /\ fn \in {"__init__", "run_golden_cross_backtest"}
       /\ args.fast_window >= args.slow_window
    \/ /\ fn \in {"optimize_golden_cross", "run_golden_cross_optimization"}
       /\ ~SomePairSurvives

(* the error reached the caller as an exception or the user as a message *)
SurfacedAsValidation ==
    \/ raised \in {ConfigurationError, NoCombinationsError}
    \/ st_error = <<"No valid parameter combinations found">>

(* C19: a configuration error is raised before any moving average or simulation   *)
(* is computed, reaches the caller or the user as a validation message, and is    *)
(* not recorded by logger.exception.                                              *)
C19_ConfigurationErrorsNotLogged ==
    ConfigurationErrorCase =>
        /\ computed = {}
        /\ portfolio = NoPortfolio
        /\ SurfacedAsValidation
        /\ logged = <<>>


(* the moving average of the single run cannot be computed: talib raises inside   *)
(* the try block                                                                  *)
SingleRunFails ==
    \/ /\ fn = "run_golden_cross_backtest"
       /\ TalibFails(args.fast_window) \/ TalibFails(args.slow_window)
    \/ /\ fn = "run_backtest"
       /\ TalibFails(Attr(self, "fast_window")) \/ TalibFails(Attr(self, "slow_window"))

NoResultsOfSingleRun ==
    /\ portfolio = NoPortfolio
    /\ st_metrics = <<>>
    /\ fast_ma = <<>> /\ slow_ma = <<>>
    /\ entries = <<>> /\ exits = <<>>

(* C20: when the simulation step of a single run raises, the exception is logged  *)
(* exactly once (one attempt, no retry) and no results are returned or shown; in  *)
(* the page handler it is turned into one failure notice and does not leave the   *)
(* handler, in the strategy it is re-raised to the caller.  A failure of the page *)
(* optimisation is likewise logged once, shown as one notice and not propagated.  *)
C20_UnexpectedFailureCaughtAndLogged ==
    /\ SingleRunFails =>
           /\ Len(logged) = 1
           /\ NoResultsOfSingleRun
           /\ IF fn = "run_golden_cross_backtest"
              THEN raised = "none" /\ Len(st_error) = 1
              ELSE raised # "none"
    /\ (fn = "run_golden_cross_optimization" /\ SomeRowFails) =>
           /\ raised = "none"
           /\ Len(logged) = 1
           /\ Len(st_error) = 1
    /\ fn \in {"run_golden_cross_backtest", "run_golden_cross_optimization"} =>
           raised = "none"

(* the page single run with a window talib rejects *)
C20_Witness ==
    /\ fn = "run_golden_cross_backtest"
    /\ args.fast_window < args.slow_window
    /\ SingleRunFails
    /\ st_error = <<"Backtest failed">>
    /\ logged = <<"Golden Cross backtest failed">>
    /\ raised = "none"


(* C21: ranking leaves the result table as it was built: after the ranked view    *)
(* has been produced, results_df still holds the rows of the simulated grid in    *)
(* enumeration order (fast_range outer, slow_range inner), and the ranked view    *)
(* holds the same rows.                                                           *)
C21_RankingDoesNotMutate ==
    RankingShown =>
        /\ results_df = PageResultRows(portfolio, param_labels)
        /\ Len(results_df_sorted) = Len(results_df)
        /\ \A k \in 1..Len(results_df) :
               /\ \E p \in FlatSurvivors :
                      /\ Cardinality({q \in FlatSurvivors : q < p}) = k - 1
                      /\ results_df[k].FastMA = FlatFast(p)
                      /\ results_df[k].SlowMA = FlatSlow(p)
               /\ Cardinality({j \in 1..Len(results_df) : results_df[j] = results_df[k]})
                      = Cardinality({j \in 1..Len(results_df_sorted) :
                                        results_df_sorted[j] = results_df[k]})

(* a ranked view whose order differs from the enumeration order *)
C21_Witness ==
    /\ RankingShown
    /\ results_df_sorted # results_df
    /\ results_df = PageResultRows(portfolio, param_labels)


DownloadOffered == fn = "run_golden_cross_optimization" /\ download # <<>>

(* C22: the export offered for download has one header row naming the columns     *)
(* Fast, Slow, TotalReturnPct, SharpeRatio, SortinoRatio, CalmarRatio,            *)
(* MaxDrawdownPct, WinRatePct, NumTrades in that order, and one data row of nine  *)
(* values per surviving pair.                                                     *)
C22_ExportHeaderAndRows ==
    DownloadOffered =>
        /\ download[1].header =
               <<"Fast", "Slow", "TotalReturnPct", "SharpeRatio", "SortinoRatio",
                 "CalmarRatio", "MaxDrawdownPct", "WinRatePct", "NumTrades">>
        /\ Len(download[1].data) = Cardinality(SurvivingPositions)
        /\ \A k \in 1..Len(download[1].data) : Len(download[1].data[k]) = 9


(* a simulated single run without fees in which exactly one entry and no exit     *)
(* fired                                                                          *)
OneEntryNoExitNoFees ==
    /\ SingleRunSimulated
    /\ portfolio.fees = 0
    /\ Cardinality(EntryBars) = 1
    /\ ExitBars = {}

EntryBar == CHOOSE e \in EntryBars : TRUE

LastBar == Len(close_prices)

(* close[last] / close[e] - 1 *)
PriceAppreciation ==
    Rat(close_prices[LastBar] - close_prices[EntryBar], close_prices[EntryBar])

(* C23: in a run without fees with exactly one entry at bar e and no exit the     *)
(* position bought at bar e is still held at the last bar, the total return       *)
(* equals close[last] / close[e] - 1, and when the closes do not fall from bar e  *)
(* on the max drawdown is 0.                                                      *)
C23_ReturnIsPriceAppreciation ==
    OneEntryNoExitNoFees =>
        /\ \A bar \in 1..LastBar : Flat(bar) <=> bar < EntryBar
        /\ RatMul(SharesAfter(LastBar), Price(close_prices[EntryBar])) = One
        /\ total_return(portfolio, 1) = Fin(PriceAppreciation)
        /\ (\A bar \in EntryBar..(LastBar - 1) : close_prices[bar] =< close_prices[bar + 1])
               => max_drawdown(portfolio, 1) = Fin(Zero)

(* the price rises after the entry *)
C23_Witness ==
    /\ OneEntryNoExitNoFees
    /\ fn = "run_backtest"
    /\ EntryBar < LastBar
    /\ close_prices[EntryBar] < close_prices[LastBar]
    /\ total_return(portfolio, 1) = Fin(PriceAppreciation)
    /\ PriceAppreciation.num > 0


Uploaded == fn = "upload_ohlcv_parquet"

ValidFiles == {i \in 1..Len(uploaded_files) : uploaded_files[i].kind = "ok"}

(* the rows of the valid files, as <<file, row>> positions *)
ValidRows ==
    {p \in ValidFiles \X (1..MaxTime) : p[2] =< Len(uploaded_files[p[1]].times)}

TimeOfRow(p) == uploaded_files[p[1]].times[p[2]]

(* p is uploaded before q: in an earlier file, or earlier in the same file *)
UploadedBefore(p, q) == p[1] < q[1] \/ (p[1] = q[1] /\ p[2] < q[2])

ReturnedSorted ==
    /\ ~combined_df.none
    /\ \A k \in 1..(Len(combined_df.rows) - 1) :
           combined_df.rows[k].time < combined_df.rows[k + 1].time
    /\ {combined_df.rows[k].time : k \in 1..Len(combined_df.rows)}
           = {TimeOfRow(p) : p \in ValidRows}
    /\ \A k \in 1..Len(combined_df.rows) :
           <<combined_df.rows[k].file, combined_df.rows[k].row>> \in ValidRows

(* C24: upload_ohlcv_parquet returns None when no valid file remains; otherwise   *)
(* a table of rows of the valid files only, with strictly increasing timestamps,  *)
(* one row for every timestamp of the valid files, and that row is the first one  *)
(* uploaded with the timestamp.                                                   *)
C24_UploadSortedFirstKept ==
    Uploaded =>
        IF ValidFiles = {} THEN combined_df = None
        ELSE /\ ReturnedSorted
             /\ \A k \in 1..Len(combined_df.rows) :
                    \A p \in ValidRows :
                        TimeOfRow(p) = combined_df.rows[k].time =>
                            ~UploadedBefore(p, <<combined_df.rows[k].file,
                                                 combined_df.rows[k].row>>)

(* the table is sorted and deduplicated whatever the files hold *)
C24_SortedPartHolds ==
    Uploaded => IF ValidFiles = {} THEN combined_df = None ELSE ReturnedSorted


(* C25: on the page run_golden_cross_backtest is called only with fast_window <   *)
(* slow_window.  A single-backtest rerun whose windows have fast >= slow shows    *)
(* the validation error, draws no run button and runs nothing; the detailed       *)
(* backtest of an optimisation gets the pair of the first ranked row, which has   *)
(* fast < slow.                                                                   *)
C25_BacktestOnlyForValidPairs ==
    /\ fn = "run_golden_cross_backtest" => args.fast_window < args.slow_window
    /\ \A p \in computed : p[1] < p[2]
    /\ \A k \in 1..Len(detailed) :
           /\ detailed[k].fast_window < detailed[k].slow_window
           /\ detailed[k].fast_window = results_df_sorted[1].FastMA
           /\ detailed[k].slow_window = results_df_sorted[1].SlowMA
    /\ (mode = "Single Backtest" /\ widgets.fast_window >= widgets.slow_window) =>
           /\ st_error = <<"Fast MA window must be smaller than Slow MA window">>
           /\ button = "none"
           /\ fn = "goldencross_page"
           /\ portfolio = NoPortfolio

(* an optimisation whose ranges overlap (a fast window is not below a slow one)   *)
(* has run its detailed backtest                                                  *)
C25_Witness ==
    /\ fn = "run_golden_cross_optimization"
    /\ mode = "Parameter Optimization"
    /\ widgets.fast_max >= widgets.slow_min
    /\ detailed # <<>>
    /\ detailed[1].fast_window < detailed[1].slow_window


(* the optimisation was started from the form and returned its table *)
OptimizationRunFromForm ==
    /\ fn = "run_golden_cross_optimization"
    /\ mode = "Parameter Optimization"
    /\ raised = "none"
    /\ results_df # <<>>

(* C28: for every range configuration that passes the validation the count      *)
(* announced as "Will test N parameter combinations" is the number of backtests  *)
(* run, that is the number of rows of the result table.                          *)
C28_AnnouncedCountIsRunCount ==
    OptimizationRunFromForm =>
        /\ Len(st_info) = 1
        /\ st_info[1].n = Len(results_df)
        /\ st_info[1].n = Len(param_labels)

(* what holds: the announced count is the size of the product of the two ranges, *)
(* never below the number of backtests run, and equal to it when the largest     *)
(* fast window is below the smallest slow window                                 *)
C28_AnnouncedCountBoundsRunCount ==
    OptimizationRunFromForm =>
        /\ Len(st_info) = 1
        /\ st_info[1].n = Len(form_fast_range(widgets)) * Len(form_slow_range(widgets))
        /\ Len(results_df) = Len(param_labels)
        /\ Len(results_df) =< st_info[1].n
        /\ widgets.fast_max < widgets.slow_min => st_info[1].n = Len(results_df)


(* the page optimisation has shown the detailed backtest of the best parameters *)
DetailedRunShown ==
    /\ fn = "run_golden_cross_optimization"
    /\ Len(detailed) = 1

(* the detailed backtest as the page runs it *)
DetailedRun ==
    run_golden_cross_backtest(close_prices, detailed[1].fast_window,
                              detailed[1].slow_window, detailed[1].initial_cash,
                              detailed[1].fees)

(* the columns of the grid run that belong to the best pair *)
BestColumns ==
    {k \in 1..Len(param_labels) :
        param_labels[k] = FormatLabel(detailed[1].fast_window, detailed[1].slow_window)}

(* C29: the detailed backtest of the best parameters runs with the Fast MA and    *)
(* Slow MA of the first row of the sorted table and with the initial cash and the *)
(* fee rate of the grid run, the fee rate being the form's percentage divided by  *)
(* 100 once; its signals and its simulated column are those of the grid run for   *)
(* that pair.                                                                     *)
C29_DetailedRunMatchesGrid ==
    DetailedRunShown =>
        /\ detailed[1].fast_window = results_df_sorted[1].FastMA
        /\ detailed[1].slow_window = results_df_sorted[1].SlowMA
        /\ detailed[1].initial_cash = args.initial_cash
        /\ detailed[1].initial_cash = portfolio.init_cash
        /\ detailed[1].fees = args.fees
        /\ detailed[1].fees = portfolio.fees
        /\ mode = "Parameter Optimization" =>
               /\ args.initial_cash = widgets.initial_cash
               /\ args.fees * 100 * widgets.fees.den = widgets.fees.num * FeeUnit
        /\ BestColumns # {}
        /\ \E single \in {DetailedRun} :
               /\ st_metrics = single.st_metrics
               /\ \A k \in BestColumns :
                      /\ portfolio.entries[k] = single.entries
                      /\ portfolio.exits[k] = single.exits
                      /\ portfolio.columns[k] = single.portfolio.columns[1]

(* an optimisation started from the form with a fee above zero whose best pair    *)
(* has an entry signal                                                            *)
C29_Witness ==
    /\ DetailedRunShown
    /\ mode = "Parameter Optimization"
    /\ widgets.fees.num > 0
    /\ Len(results_df) > 1
    /\ \E k \in BestColumns :
           /\ \E bar \in 1..Len(close_prices) : portfolio.entries[k][bar]
           /\ Len(portfolio.columns[k].trades) = 1


(* an optimiser has built the signal matrices of its grid *)
MatricesBuilt ==
    /\ fn \in {"optimize_golden_cross", "run_golden_cross_optimization"}
    /\ param_labels # <<>>

(* C26: for any fast_range and slow_range, repeated window values included, the   *)
(* entries and exits matrices handed to the simulation have one column for every  *)
(* element of param_labels, so that the simulation runs and the metric at idx     *)
(* belongs to param_labels[idx].                                                  *)
C26_OneColumnPerLabel ==
    MatricesBuilt =>
        /\ Len(entries_df) = Len(param_labels)
        /\ Len(exits_df) = Len(param_labels)
        /\ portfolio # NoPortfolio
        /\ Len(results_df) = Len(param_labels)
        /\ \A idx \in 1..Len(param_labels) :
               /\ results_df[idx].FastMA = LabelFast(param_labels[idx])
               /\ results_df[idx].SlowMA = LabelSlow(param_labels[idx])

(* what holds: the matrices have one column for every distinct label, which is    *)
(* one for every element of param_labels when no surviving pair is repeated       *)
C26_OneColumnPerDistinctLabel ==
    MatricesBuilt =>
        /\ Len(entries_df) = Cardinality({param_labels[k] : k \in 1..Len(param_labels)})
        /\ Len(exits_df) = Len(entries_df)
        /\ (\A j, k \in 1..Len(param_labels) : param_labels[j] = param_labels[k] => j = k)
               => /\ Len(entries_df) = Len(param_labels)
                  /\ portfolio # NoPortfolio
                  /\ Len(results_df) = Len(param_labels)


(* the strategy module's single run on the arguments of the page's single run:    *)
(* GoldenCrossStrategy(fast_window, slow_window, initial_cash, fees).run_backtest *)
StrategySingleRun ==
    LET init == StrategyInit(args.fast_window, args.slow_window,
                             args.initial_cash, args.fees)
    IN  IF init.raised # "none"
        THEN [raised |-> init.raised, logged |-> <<>>, computed |-> {},
              portfolio |-> NoPortfolio, fast_ma |-> <<>>, slow_ma |-> <<>>,
              entries |-> <<>>, exits |-> <<>>]
        ELSE run_backtest(init.self, close_prices)

(* the page's single run on the attributes and closes of the strategy's run *)
PageSingleRun ==
    run_golden_cross_backtest(close_prices, Attr(self, "fast_window"),
                              Attr(self, "slow_window"), Attr(self, "initial_cash"),
                              Attr(self, "fees"))

(* the two single runs agree: both fail or both give the same series, signals and *)
(* simulation                                                                     *)
SingleRunsAgree(strategy, page) ==
    /\ (strategy.raised # "none") = (page.st_error # <<>>)
    /\ strategy.fast_ma = page.fast_ma
    /\ strategy.slow_ma = page.slow_ma
    /\ strategy.entries = page.entries
    /\ strategy.exits = page.exits
    /\ strategy.portfolio = page.portfolio
    /\ strategy.computed = page.computed

(* the two optimisers agree: both reject the grid as having no valid combination, *)
(* both fail otherwise, or both give the same labels, matrices, simulation and    *)
(* rows                                                                           *)
OptimizersAgree(strategy, page) ==
    /\ (strategy.raised = NoCombinationsError)
           = (page.st_error = <<"No valid parameter combinations found">>)
    /\ (strategy.raised # "none") = (page.st_error # <<>>)
    /\ strategy.param_labels = page.param_labels
    /\ strategy.entries_df = page.entries_df
    /\ strategy.exits_df = page.exits_df
    /\ strategy.portfolio = page.portfolio
    /\ strategy.results_df = page.results_df
    /\ strategy.computed = page.computed

(* the state of a single run as a record *)
SingleRunState ==
    [raised |-> raised, st_error |-> st_error, fast_ma |-> fast_ma, slow_ma |-> slow_ma,
     entries |-> entries, exits |-> exits, portfolio |-> portfolio, computed |-> computed]

(* C27: the page implementation and the strategy module are equivalent on the     *)
(* same inputs: the same moving averages, entries and exits, the same param_labels *)
(* in the same order, the same result rows, and the same inputs rejected.          *)
C27_PageEquivalentToStrategy ==
    /\ fn = "run_golden_cross_backtest" => SingleRunsAgree(StrategySingleRun, SingleRunState)
    /\ fn = "run_backtest" => SingleRunsAgree(SingleRunState, PageSingleRun)
    /\ fn = "optimize_golden_cross" =>
           /\ OptimizersAgree([raised |-> raised, param_labels |-> param_labels,
                               entries_df |-> entries_df, exits_df |-> exits_df,
                               portfolio |-> portfolio, results_df |-> results_df,
                               computed |-> computed],
                              run_golden_cross_optimization(close_prices, args.fast_range,
                                  args.slow_range, args.initial_cash, args.fees))
    /\ fn = "run_golden_cross_optimization" =>
           \E strategy \in {optimize_golden_cross(close_prices, args.fast_range,
                                args.slow_range, args.initial_cash, args.fees)} :
               /\ (strategy.raised = NoCombinationsError)
                      = (st_error = <<"No valid parameter combinations found">>)
               /\ strategy.param_labels = param_labels
               /\ strategy.entries_df = entries_df
               /\ strategy.exits_df = exits_df
               /\ strategy.portfolio = portfolio
               /\ strategy.raised = "none" => Len(strategy.results_df) = Len(results_df_sorted)
               /\ strategy.raised = "none" =>
                      \A k \in 1..Len(strategy.results_df) :
                          \E j \in 1..Len(results_df_sorted) :
                              results_df_sorted[j] = strategy.results_df[k]

(* what holds: the same with the page's single run restricted to the pairs the    *)
(* strategy's constructor accepts                                                 *)
C27_EquivalentOnAcceptedPairs ==
    \/ fn = "run_golden_cross_backtest" /\ args.fast_window >= args.slow_window
    \/ C27_PageEquivalentToStrategy


(* an exchange page has run *)
ExchangePageRun == fn \in ExchangePages

AllNone == \A key \in SessionKeys : session_state[key].none

(* all five fields hold what the same call of OHLCV.fetch led to *)
AllSetBySameFetch ==
    /\ \A key \in SessionKeys : ~session_state[key].none
    /\ \A key \in SessionKeys : session_state[key].fetch = session_state["candles"].fetch
    /\ session_state["candles"].value =
           OHLCV_fetch(session_state["start_dt"].value, session_state["end_dt"].value)

(* a run of an exchange page that ended with an exception leaves the session     *)
(* state as the run before left it                                               *)
RaisingRunKeepsSessionState ==
    (fn \in ExchangePages /\ fn' \in ExchangePages /\ raised' # "none")
        => session_state' = session_state

(* C30: after any sequence of runs of the Bybit and Binance pages, with fetches   *)
(* that succeed or raise, the session fields candles, instrument, start_dt,       *)
(* end_dt and timeframe are all None or all set by the same successful fetch; a   *)
(* fetch that raises leaves the five unchanged; the download button is drawn, and *)
(* OHLCV.to_parquet called, only when candles and instrument are not None.        *)
C30_SessionFieldsSetTogether ==
    /\ [](ExchangePageRun =>
            /\ DOMAIN session_state = SessionKeys
            /\ AllNone \/ AllSetBySameFetch
            /\ download_button =>
                   (~session_state["candles"].none /\ ~session_state["instrument"].none)
            /\ to_parquet # <<>> =>
                   /\ raised = "none"
                   /\ to_parquet[1].candles = session_state["candles"]
                   /\ to_parquet[1].symbol = session_state["instrument"].value)
    /\ [][RaisingRunKeepsSessionState]_vars

(* a fetch on the Binance page raised after a fetch on the Bybit page had         *)
(* succeeded: the fields still hold the Bybit data                               *)
C30_Witness ==
    /\ fn = "binance_page"
    /\ raised = "ccxt.ExchangeError"
    /\ fetches > 1
    /\ AllSetBySameFetch
    /\ session_state["instrument"].value \in Instruments("bybit")
    /\ session_state["candles"].fetch < fetches
    /\ ~download_button

====
